---- MODULE Spec2Model ----
(***************************************************************************)
(* A model of pyrocko's util.py and fdsn/enhanced_sacpz.py.                *)
(*                                                                         *)
(* The module holds several state machines, one per component:             *)
(*   SoleSpec   the single-instance lock (util.Sole) on one lock path,     *)
(*              with the kernel's file table and POSIX record locks        *)
(*   DeciSpec   the decimation table (mk_decitab, decitab) under calls     *)
(*              with any ceiling                                           *)
(*   Deci100Spec  the same table under decitab(1..100) and the default     *)
(*              mk_decitab()                                               *)
(*   LeapSpec   read_leap_seconds2 with parse_leap_seconds_list and        *)
(*              download_file, step by step, over the list file            *)
(*   StationSpec  make_stationxml (with consistency_merge) over any short  *)
(*              sequence of records                                        *)
(*   TimeSpec   str_to_time, time_to_str and the 'end' field of iload_fh   *)
(*              over time strings and formats, well-formed or not          *)
(*   MergeSpec  consistency_merge called on its own, on any short list of  *)
(*              tuples, the empty one included                             *)
(*   LoadSpec   the iload of make_iload_family called on a source of any   *)
(*              shape over a small directory tree                          *)
(*   IterSpec   iter_days, iter_months and iter_years, one generator step  *)
(*              after the other, over time spans around month and year     *)
(*              ends and around the epoch                                  *)
(*   Base36Spec  base36encode and base36decode over small and large        *)
(*              integers, negative ones included                           *)
(*   UnpackSpec  unpack_fixed over short formats and lines, with two       *)
(*              callbacks                                                  *)
(*   CacheSpec   any calls of reuse, decimate_coeffs, decimate,            *)
(*              mk_decitab, decitab and match_nslc in one process          *)
(*   EnsureSpec  two callers of ensuredir on one path, step by step         *)
(*   RenderSpec  time_to_str called on its own, on times with fractions    *)
(*              and on every format                                        *)
(***************************************************************************)
EXTENDS Integers, Sequences, FiniteSets, TLC

VARIABLES
    \* ---- Sole: the objects and the kernel state they act on
    pc,             \* per Sole object: where its __init__/__del__ stands
    lockfile,       \* per Sole object: self._lockfile (an inode, 0 = None)
    other_running,  \* per Sole object: self._other_running
    pathIno,        \* the inode pid_path is linked to (0 = no such file)
    lockOwner,      \* per inode: the process holding the POSIX lock
    content,        \* per inode: the text stored in the file
    \* ---- the decimation table
    decitab_tab,    \* GlobalVars.decitab
    decitab_nmax,   \* GlobalVars.decitab_nmax
    deci_call,      \* the last call: its name and argument
    deci_ret,       \* what the last call returned or raised
    \* ---- read_leap_seconds2 and the files it works on
    ls_pc,          \* where the call of read_leap_seconds2 stands
    ls_file,        \* the list file at conf.leapseconds_path
    ls_tmp,         \* download_file's temporary file beside it
    ls_remote,      \* the list the server at conf.leapseconds_url holds
    ls_read,        \* the chunks download_file has read from the response
    ls_exc,         \* the exception download_file raised, if it did
    ls_result,      \* what read_leap_seconds2 returned or raised
    ls_downloads,   \* the calls of download_file made
    ls_parses,      \* the calls of parse_leap_seconds_list made
    \* ---- make_stationxml
    sx_responses,   \* the records passed to make_stationxml
    sx_policy,      \* the inconsistencies argument of the call
    sx_doc,         \* what the call returned or raised
    \* ---- time strings
    tm_pc,          \* which operation has been applied to the string
    tm_s,           \* the time string
    tm_format,      \* the format
    tm_t,           \* what str_to_time(tm_s, tm_format) returned or raised
    tm_str,         \* what time_to_str(tm_t, tm_format) returned
    tm_rec,         \* what iload_fh produced for 'end' = tm_s
    \* ---- consistency_merge called on its own
    cm_list,        \* list_of_tuples
    cm_error,       \* the error argument
    cm_ret,         \* what the call returned or raised
    cm_logged,      \* whether the call has logged a warning
    \* ---- the loaders of make_iload_family
    ld_source,      \* the source passed to iload
    ld_out,         \* the loaders called and the records yielded
    \* ---- iter_days, iter_months, iter_years
    it_unit,        \* which of the three generators is running
    it_tmin,        \* its argument tmin
    it_tmax,        \* its argument tmax
    it_pc,          \* where the generator stands
    it_t,           \* its local t
    it_out,         \* the pairs it has yielded
    \* ---- base36encode, base36decode
    b36_pc,         \* which of the two has been applied
    b36_number,     \* the integer passed to base36encode
    b36_encoded,    \* what base36encode returned or raised
    b36_decoded,    \* what base36decode returned or raised
    \* ---- unpack_fixed
    up_format,      \* the format, as the fields of format.split(',')
    up_line,        \* the line
    up_ret,         \* what the call returned or raised
    \* ---- the caches of the process
    reuse_store,            \* GlobalVars.reuse_store
    decimate_fir_coeffs,    \* GlobalVars.decimate_fir_coeffs
    decimate_iir_coeffs,    \* GlobalVars.decimate_iir_coeffs
    pattern_cache,          \* _pattern_cache
    ca_call,                \* the last call on these caches and its first
                            \* argument
    ca_ret,                 \* what that call returned or raised
    \* ---- ensuredir
    ed_exists,      \* the directories that exist, each named by its depth on
                    \* the path dst
    ed_pc,          \* where each caller of ensuredir(dst) is
    ed_d,           \* each caller's d
    ed_dirs,        \* each caller's dirs
    ed_exc,         \* the OSError that left each caller's call
    \* ---- time_to_str called on its own
    rn_t,           \* the time t
    rn_format,      \* the format
    rn_str          \* the string returned

soleVars == <<pc, lockfile, other_running, pathIno, lockOwner, content>>
deciVars == <<decitab_tab, decitab_nmax, deci_call, deci_ret>>

leapVars == <<ls_pc, ls_file, ls_tmp, ls_remote, ls_read, ls_exc, ls_result,
              ls_downloads, ls_parses>>

stationVars == <<sx_responses, sx_policy, sx_doc>>

timeVars == <<tm_pc, tm_s, tm_format, tm_t, tm_str, tm_rec>>

mergeVars == <<cm_list, cm_error, cm_ret, cm_logged>>

loadVars == <<ld_source, ld_out>>

iterVars == <<it_unit, it_tmin, it_tmax, it_pc, it_t, it_out>>

base36Vars == <<b36_pc, b36_number, b36_encoded, b36_decoded>>

unpackVars == <<up_format, up_line, up_ret>>

cacheVars == <<reuse_store, decimate_fir_coeffs, decimate_iir_coeffs,
               pattern_cache, ca_call, ca_ret>>

ensureVars == <<ed_exists, ed_pc, ed_d, ed_dirs, ed_exc>>

renderVars == <<rn_t, rn_format, rn_str>>

vars == <<soleVars, deciVars, leapVars, stationVars, timeVars, mergeVars,
          loadVars, iterVars, base36Vars, unpackVars, cacheVars,
          ensureVars, renderVars>>

\* what a call into one component leaves alone: the other components
notSole == <<deciVars, leapVars, stationVars, timeVars, mergeVars, loadVars,
             iterVars, base36Vars, unpackVars, cacheVars, ensureVars,
             renderVars>>
notDeci == <<soleVars, leapVars, stationVars, timeVars, mergeVars, loadVars,
             iterVars, base36Vars, unpackVars, cacheVars, ensureVars,
             renderVars>>
notLeap == <<soleVars, deciVars, stationVars, timeVars, mergeVars, loadVars,
             iterVars, base36Vars, unpackVars, cacheVars, ensureVars,
             renderVars>>
notStation == <<soleVars, deciVars, leapVars, timeVars, mergeVars, loadVars,
                iterVars, base36Vars, unpackVars, cacheVars, ensureVars,
                renderVars>>
notTime == <<soleVars, deciVars, leapVars, stationVars, mergeVars, loadVars,
             iterVars, base36Vars, unpackVars, cacheVars, ensureVars,
             renderVars>>
notMerge == <<soleVars, deciVars, leapVars, stationVars, timeVars, loadVars,
              iterVars, base36Vars, unpackVars, cacheVars, ensureVars,
              renderVars>>
notLoad == <<soleVars, deciVars, leapVars, stationVars, timeVars, mergeVars,
             iterVars, base36Vars, unpackVars, cacheVars, ensureVars,
             renderVars>>
notIter == <<soleVars, deciVars, leapVars, stationVars, timeVars, mergeVars,
             loadVars, base36Vars, unpackVars, cacheVars, ensureVars,
             renderVars>>
notBase36 == <<soleVars, deciVars, leapVars, stationVars, timeVars, mergeVars,
               loadVars, iterVars, unpackVars, cacheVars, ensureVars, renderVars>>
notUnpack == <<soleVars, deciVars, leapVars, stationVars, timeVars, mergeVars,
               loadVars, iterVars, base36Vars, cacheVars, ensureVars, renderVars>>
notCache == <<soleVars, deciVars, leapVars, stationVars, timeVars, mergeVars,
              loadVars, iterVars, base36Vars, unpackVars, ensureVars, renderVars>>
notEnsure == <<soleVars, deciVars, leapVars, stationVars, timeVars, mergeVars,
               loadVars, iterVars, base36Vars, unpackVars, cacheVars, renderVars>>
notRender == <<soleVars, deciVars, leapVars, stationVars, timeVars, mergeVars,
               loadVars, iterVars, base36Vars, unpackVars, cacheVars, ensureVars>>

(***************************************************************************)
(* Sole                                                                    *)
(***************************************************************************)

\* Three processes; the first one makes two Sole objects on the path.
Procs == {"p1", "p2", "p3"}
Objs == {"a1", "a2", "b", "c"}
owner == [o \in Objs |->
             CASE o \in {"a1", "a2"} -> "p1"
               [] o = "b" -> "p2"
               [] OTHER -> "p3"]

NoProc == "none"
NoIno == 0
\* every object may keep one file open, and the path may name one more
Inodes == 1 .. (Cardinality(Objs) + 1)

\* what a lock file can hold: nothing, or the pid line of a process
Empty == ""

\* An inode is in use while the path names it or a descriptor is open on it.
InUse(i, lf, p) == p = i \/ \E o \in Objs : lf[o] = i

FreshIno(lf, p) == CHOOSE i \in Inodes :
                     /\ ~InUse(i, lf, p)
                     /\ \A j \in Inodes : j < i => InUse(j, lf, p)

\* The kernel forgets an inode nothing refers to any more.
Reclaim(f, lf, p, blank) ==
    [i \in Inodes |-> IF InUse(i, lf, p) THEN f[i] ELSE blank]

\* The interpreter of one process runs one call at a time: no other object
\* of the process is inside __init__ or __del__.
Midway == {"opened", "locked", "unlocked", "closed"}
ProcessFree(o) ==
    \A o2 \in Objs : (o2 # o /\ owner[o2] = owner[o]) => pc[o2] \notin Midway

\* A lock that belonged to the open file (as flock's does) instead of the
\* process: any other object that locked the file is in the way.
LockConflictPerDescriptor(o) ==
    \E o2 \in Objs : /\ o2 # o
                     /\ lockfile[o2] = lockfile[o]
                     /\ pc[o2] \in {"locked", "held"}

\* fcntl.lockf(fd, LOCK_EX | LOCK_NB): a POSIX record lock belongs to the
\* process, so it conflicts only with a lock of another process.
LockConflict(o) ==
    lockOwner[lockfile[o]] \notin {NoProc, owner[o]}

SoleInit ==
    /\ pc = [o \in Objs |-> "idle"]
    /\ lockfile = [o \in Objs |-> NoIno]
    /\ other_running = [o \in Objs |-> FALSE]
    /\ pathIno = NoIno
    /\ lockOwner = [i \in Inodes |-> NoProc]
    /\ content = [i \in Inodes |-> Empty]

\* Sole.__init__, up to os.open(path, O_CREAT | O_WRONLY) succeeding
SoleOpen(o) ==
    /\ pc[o] = "idle"
    /\ ProcessFree(o)
    /\ LET i == IF pathIno = NoIno THEN FreshIno(lockfile, pathIno)
                ELSE pathIno
       IN /\ lockfile' = [lockfile EXCEPT ![o] = i]
          /\ pathIno' = i
    /\ other_running' = [other_running EXCEPT ![o] = FALSE]
    /\ pc' = [pc EXCEPT ![o] = "opened"]
    /\ UNCHANGED <<lockOwner, content>>
    /\ UNCHANGED notSole

\* Sole.__init__ when os.open raises: SoleError('Cannot open lockfile')
SoleOpenFails(o) ==
    /\ pc[o] = "idle"
    /\ ProcessFree(o)
    /\ other_running' = [other_running EXCEPT ![o] = FALSE]
    /\ pc' = [pc EXCEPT ![o] = "noopen"]
    /\ UNCHANGED <<lockfile, pathIno, lockOwner, content>>
    /\ UNCHANGED notSole

\* Sole.__init__: the non-blocking lockf and, when it fails, the SoleError
\* (the pid it names is read from the file and changes nothing)
SoleLock(o) ==
    /\ pc[o] = "opened"
    /\ IF LockConflict(o)
       THEN /\ other_running' = [other_running EXCEPT ![o] = TRUE]
            /\ pc' = [pc EXCEPT ![o] = "failed"]
            /\ UNCHANGED lockOwner
       ELSE /\ lockOwner' = [lockOwner EXCEPT ![lockfile[o]] = owner[o]]
            /\ pc' = [pc EXCEPT ![o] = "locked"]
            /\ UNCHANGED other_running
    /\ UNCHANGED <<lockfile, pathIno, content>>
    /\ UNCHANGED notSole

\* Sole.__init__: ftruncate, write of the pid, fsync; each may fail and the
\* failure is passed over
SoleWritePid(o) ==
    /\ pc[o] = "locked"
    /\ \E text \in {content[lockfile[o]], Empty, owner[o]} :
          content' = [content EXCEPT ![lockfile[o]] = text]
    /\ pc' = [pc EXCEPT ![o] = "held"]
    /\ UNCHANGED <<lockfile, other_running, pathIno, lockOwner>>
    /\ UNCHANGED notSole

\* Sole.__del__ of an object whose lockf succeeded: lockf(LOCK_UN)
SoleDelUnlock(o) ==
    /\ pc[o] = "held"
    /\ ProcessFree(o)
    /\ ~other_running[o]
    /\ lockfile[o] # NoIno
    /\ lockOwner' = [lockOwner EXCEPT ![lockfile[o]] =
                        IF @ = owner[o] THEN NoProc ELSE @]
    /\ pc' = [pc EXCEPT ![o] = "unlocked"]
    /\ UNCHANGED <<lockfile, other_running, pathIno, content>>
    /\ UNCHANGED notSole

\* Sole.__del__: os.close; closing any descriptor of a file drops the
\* process's record locks on that file
SoleDelClose(o) ==
    /\ pc[o] = "unlocked"
    /\ LET i == lockfile[o]
           lf == [lockfile EXCEPT ![o] = NoIno]
           lo == [lockOwner EXCEPT ![i] = IF @ = owner[o] THEN NoProc ELSE @]
       IN /\ lockfile' = lf
          /\ lockOwner' = Reclaim(lo, lf, pathIno, NoProc)
          /\ content' = Reclaim(content, lf, pathIno, Empty)
    /\ pc' = [pc EXCEPT ![o] = "closed"]
    /\ UNCHANGED <<other_running, pathIno>>
    /\ UNCHANGED notSole

\* os.unlink(path) inside try/except: the path loses its file, or the call
\* fails and is passed over
Unlink(o, next) ==
    /\ \E done \in BOOLEAN :
          LET p == IF done THEN NoIno ELSE pathIno
          IN /\ pathIno' = p
             /\ lockOwner' = Reclaim(lockOwner, lockfile, p, NoProc)
             /\ content' = Reclaim(content, lockfile, p, Empty)
    /\ pc' = [pc EXCEPT ![o] = next]
    /\ UNCHANGED <<lockfile, other_running>>

\* Sole.__del__: the unlink that follows unlock and close
SoleDelUnlink(o) ==
    /\ pc[o] = "closed"
    /\ Unlink(o, "gone")
    /\ UNCHANGED notSole

\* Sole.__del__ of an object whose os.open failed: _lockfile is None, so
\* only the unlink runs
SoleDelNoOpen(o) ==
    /\ pc[o] = "noopen"
    /\ ProcessFree(o)
    /\ ~other_running[o]
    /\ lockfile[o] = NoIno
    /\ Unlink(o, "dropped")
    /\ UNCHANGED notSole

\* a __del__ that unlinks the path whether _other_running is set or not
SoleDelFailedUnlinking(o) ==
    /\ pc[o] = "failed"
    /\ ProcessFree(o)
    /\ other_running[o]
    /\ Unlink(o, "leaked")
    /\ UNCHANGED notSole

\* Sole.__del__ of an object whose lockf failed: _other_running is set and
\* nothing is done; the descriptor stays open
SoleDelFailed(o) ==
    /\ pc[o] = "failed"
    /\ ProcessFree(o)
    /\ other_running[o]
    /\ pc' = [pc EXCEPT ![o] = "leaked"]
    /\ UNCHANGED <<lockfile, other_running, pathIno, lockOwner, content>>
    /\ UNCHANGED notSole

SoleNext ==
    \E o \in Objs :
        \/ SoleOpen(o)
        \/ SoleOpenFails(o)
        \/ SoleLock(o)
        \/ SoleWritePid(o)
        \/ SoleDelUnlock(o)
        \/ SoleDelClose(o)
        \/ SoleDelUnlink(o)
        \/ SoleDelNoOpen(o)
        \/ SoleDelFailed(o)


(***************************************************************************)
(* The decimation table                                                    *)
(***************************************************************************)

\* mk_decitab's loops run over range(1,10)
RangeStop == 10
\* mk_decitab(nmax=100)
DefaultNmax == 100

\* arguments of the calls DeciSpec makes
MaxFactor == 24
MaxCeiling == 30
\* arguments of the decitab calls Deci100Spec makes
TestedFactors == 100

EmptyTab == [p \in {} |-> <<>>]

\* "if p >= nmax: break", an off-by-one slip of the innermost test
BreakInnerOffByOne(p, nmax) == p >= nmax

\* line 412, "if p > nmax: break": leaves the m loop before p is stored
BreakInner(p, nmax) == p > nmax

\* lines 415-418, "if i*j*k*l > nmax: break" and the like: leaves a loop
\* after its body has run
BreakOuter(p, nmax) == p > nmax

\* the values for which the body of a loop over range(1,stop) runs, when the
\* loop is left after the body of the first value x with BreakOuter(f*x)
Runs(stop, f, nmax) ==
    {x \in 1 .. (stop - 1) : \A y \in 1 .. (x - 1) : ~BreakOuter(f * y, nmax)}

\* the values of m at which the innermost body gets to its store
Stores(stop, f, nmax) ==
    {m \in 1 .. (stop - 1) : \A y \in 1 .. m : ~BreakInner(f * y, nmax)}

\* the tuples (i,j,k,l,m) at which the loops of mk_decitab(nmax) get to
\* "if p not in tab"
Visited(nmax) ==
    UNION {UNION {UNION {UNION {
        {<<i, j, k, l, m>> : m \in Stores(l + 1, i * j * k * l, nmax)}
        : l \in Runs(k + 1, i * j * k, nmax)}
        : k \in Runs(j + 1, i * j, nmax)}
        : j \in Runs(i + 1, i, nmax)}
        : i \in Runs(RangeStop, 1, nmax)}

Product(q) == q[1] * q[2] * q[3] * q[4] * q[5]

\* the order of loops that count down from 9
VisitedBeforeCountingDown(q, r) ==
    \E n \in 1 .. 5 : /\ q[n] > r[n]
                      /\ \A x \in 1 .. (n - 1) : q[x] = r[x]

\* q comes before r in the order the loops visit the tuples (i outermost,
\* every loop counting up)
VisitedBefore(q, r) ==
    \E n \in 1 .. 5 : /\ q[n] < r[n]
                      /\ \A x \in 1 .. (n - 1) : q[x] = r[x]

\* the first tuple the loops visit among those of V with product p
FirstVisited(p, V) ==
    LET C == {q \in V : Product(q) = p}
    IN CHOOSE q \in C : \A r \in C : r = q \/ VisitedBefore(q, r)

\* what the loops of mk_decitab(nmax) store when GlobalVars.decitab is
\* empty: under every product reached, the first tuple visited with it
StoredFromEmpty(nmax) ==
    LET V == Visited(nmax)
    IN [p \in {Product(q) : q \in V} |-> FirstVisited(p, V)]

\* the largest ceiling a call of the model passes to mk_decitab
TopCeiling ==
    LET a == 2 * MaxFactor
        b == 2 * TestedFactors
        c == IF MaxCeiling > DefaultNmax THEN MaxCeiling ELSE DefaultNmax
        ab == IF a > b THEN a ELSE b
    IN IF ab > c THEN ab ELSE c

\* StoredFromEmpty, tabulated once for every ceiling
StoredByCeiling == [nmax \in 0 .. TopCeiling |-> StoredFromEmpty(nmax)]

\* the table mk_decitab(nmax) leaves in GlobalVars.decitab: "if p not in
\* tab: tab[p] = (i,j,k,l,m)" keeps what the table held and adds, under each
\* new product, the first tuple visited with it
mk_decitab(tab, nmax) ==
    LET new == StoredByCeiling[nmax]
    IN [p \in DOMAIN tab \cup DOMAIN new |->
           IF p \in DOMAIN tab THEN tab[p] ELSE new[p]]

NoRet == [kind |-> "None", val |-> <<>>]

DeciInit ==
    /\ decitab_tab = EmptyTab
    /\ decitab_nmax = 0
    /\ deci_call = [name |-> "import", arg |-> 0]
    /\ deci_ret = NoRet

\* a call of mk_decitab(nmax)
MkDecitab(nmax) ==
    /\ decitab_tab' = mk_decitab(decitab_tab, nmax)
    /\ decitab_nmax' = nmax
    /\ deci_call' = [name |-> "mk_decitab", arg |-> nmax]
    /\ deci_ret' = NoRet
    /\ UNCHANGED notDeci

\* a call of decitab(n)
Decitab(n) ==
    LET regen == n > decitab_nmax
        tab == IF regen THEN mk_decitab(decitab_tab, n * 2) ELSE decitab_tab
    IN /\ decitab_tab' = tab
       /\ decitab_nmax' = IF regen THEN n * 2 ELSE decitab_nmax
       /\ deci_call' = [name |-> "decitab", arg |-> n]
       /\ deci_ret' = IF n \notin DOMAIN tab
                      THEN [kind |-> "UnavailableDecimation", val |-> <<>>]
                      ELSE [kind |-> "tuple", val |-> tab[n]]
       /\ UNCHANGED notDeci

DeciNext ==
    \/ \E nmax \in 0 .. MaxCeiling : MkDecitab(nmax)
    \/ \E n \in 1 .. MaxFactor : Decitab(n)


Deci100Next ==
    \/ MkDecitab(DefaultNmax)
    \/ \E n \in 1 .. TestedFactors : Decitab(n)

(***************************************************************************)
(* The leap-second list: read_leap_seconds2                                *)
(***************************************************************************)

\* the longest list the server sends, in reads of 1024 bytes
MaxChunks == 2

\* A list: which one it is (the one on disk before the call, or the server's),
\* how many chunks it has when complete, how many of them this copy holds, and
\* whether its "#@" line (in its first chunk) names a time yet to come.
Lists == [of : {"old", "new"}, full : 0 .. MaxChunks, chunks : 0 .. MaxChunks,
          fresh : BOOLEAN]
CompleteLists == {c \in Lists : c.chunks = c.full}
NoList == [of |-> "none", full |-> 0, chunks |-> 0, fresh |-> FALSE]

NoFile == [exists |-> FALSE, readable |-> FALSE, list |-> NoList]

FileOf(c) == [exists |-> TRUE, readable |-> TRUE, list |-> c]

\* parse_leap_seconds_list(fn): the data, or the exception raised
parse_leap_seconds_list(f) ==
    IF ~f.exists THEN "LeapSecondsOutdated"            \* no file found
    ELSE IF ~f.readable THEN "LeapSecondsError"        \* IOError
    ELSE IF f.list.chunks = 0 \/ ~f.list.fresh
         THEN "LeapSecondsOutdated"                    \* texpires None or past
    ELSE "data"

LeapInit ==
    /\ ls_pc = "imported"
    /\ ls_file = NoFile
    /\ ls_tmp = NoFile
    /\ ls_remote = NoList
    /\ ls_read = 0
    /\ ls_exc = "none"
    /\ ls_result = "none"
    /\ ls_downloads = 0
    /\ ls_parses = 0

\* the list file and the server as a call of read_leap_seconds2 may find
\* them: no file, or a complete earlier list, readable or not; on the server
\* a complete list, expired or not
LeapStart ==
    /\ ls_pc = "parse"
    /\ ls_file \in {NoFile} \cup
                   {[exists |-> TRUE, readable |-> r, list |-> c] :
                       r \in BOOLEAN, c \in {x \in CompleteLists : x.of = "old"}}
    /\ ls_remote \in {x \in CompleteLists : x.of = "new"}
    /\ ls_tmp = NoFile
    /\ ls_read = 0
    /\ ls_exc = "none"
    /\ ls_result = "none"
    /\ ls_downloads = 0
    /\ ls_parses = 0

\* the first parse followed by the download whatever the parse reports
LsParseFirstThenDownload ==
    /\ ls_pc = "parse"
    /\ ls_parses' = ls_parses + 1
    /\ ls_pc' = "download"
    /\ UNCHANGED <<ls_file, ls_tmp, ls_remote, ls_read, ls_exc, ls_downloads,
                   ls_result>>
    /\ UNCHANGED notLeap

\* read_leap_seconds2: "return parse_leap_seconds_list(fn)" in the try, and
\* "except LeapSecondsOutdated"
LsParseFirst ==
    /\ ls_pc = "parse"
    /\ ls_parses' = ls_parses + 1
    /\ LET r == parse_leap_seconds_list(ls_file)
       IN IF r = "LeapSecondsOutdated"
          THEN /\ ls_pc' = "download"
               /\ UNCHANGED ls_result
          ELSE /\ ls_pc' = "done"
               /\ ls_result' = r
    /\ UNCHANGED <<ls_file, ls_tmp, ls_remote, ls_read, ls_exc, ls_downloads>>
    /\ UNCHANGED notLeap

\* a step of download_file raises exc, which leaves download_file
DlRaise(exc) ==
    /\ ls_exc' = exc
    /\ ls_pc' = "download failed"

\* download_file: ensuredirs(fpath) and urllib2.urlopen(url); an HTTPError
\* becomes a DownloadError, any other error passes through
DlUrlopen ==
    /\ ls_pc = "download"
    /\ ls_downloads' = ls_downloads + 1
    /\ \/ ls_pc' = "dl open" /\ UNCHANGED ls_exc
       \/ \E exc \in {"OSError", "DownloadError", "URLError"} : DlRaise(exc)
    /\ UNCHANGED <<ls_file, ls_tmp, ls_remote, ls_read, ls_result, ls_parses>>
    /\ UNCHANGED notLeap

\* g = open(fpath, 'wb'): the destination itself is opened for writing
DlOpenDestination ==
    /\ ls_pc = "dl open"
    /\ ls_file' = FileOf([ls_remote EXCEPT !.chunks = 0])
    /\ ls_tmp' = ls_file'
    /\ ls_pc' = "dl copy"
    /\ UNCHANGED <<ls_exc, ls_remote, ls_read, ls_result, ls_downloads, ls_parses>>
    /\ UNCHANGED notLeap

\* download_file: g = open(fpath_tmp, 'wb')
DlOpenTmp ==
    /\ ls_pc = "dl open"
    /\ \/ /\ ls_tmp' = FileOf([ls_remote EXCEPT !.chunks = 0])
          /\ ls_pc' = "dl copy"
          /\ UNCHANGED ls_exc
       \/ DlRaise("IOError") /\ UNCHANGED ls_tmp
    /\ UNCHANGED <<ls_file, ls_remote, ls_read, ls_result, ls_downloads, ls_parses>>
    /\ UNCHANGED notLeap

\* download_file: one turn of "data = f.read(1024); if not data: break;
\* g.write(data)"
DlCopy ==
    /\ ls_pc = "dl copy"
    /\ \/ /\ ls_read < ls_remote.full
          /\ ls_read' = ls_read + 1
          /\ ls_tmp' = [ls_tmp EXCEPT !.list.chunks = @ + 1]
          /\ UNCHANGED <<ls_pc, ls_exc>>
       \/ /\ ls_read = ls_remote.full
          /\ ls_pc' = "dl rename"
          /\ UNCHANGED <<ls_read, ls_tmp, ls_exc>>
       \/ /\ \E exc \in {"socket.error", "IOError"} : DlRaise(exc)
          /\ UNCHANGED <<ls_read, ls_tmp>>
    /\ UNCHANGED <<ls_file, ls_remote, ls_result, ls_downloads, ls_parses>>
    /\ UNCHANGED notLeap

\* download_file: g.close(); f.close(); os.rename(fpath_tmp, fpath)
DlRename ==
    /\ ls_pc = "dl rename"
    /\ \/ /\ ls_file' = ls_tmp
          /\ ls_tmp' = NoFile
          /\ ls_pc' = "parse again"
          /\ UNCHANGED ls_exc
       \/ DlRaise("OSError") /\ UNCHANGED <<ls_file, ls_tmp>>
    /\ UNCHANGED <<ls_remote, ls_read, ls_result, ls_downloads, ls_parses>>
    /\ UNCHANGED notLeap

\* what evaluating 'cannot download ... %s to %s' (url, fn) gives: the string
\* is called, not formatted
CallOfAString == "TypeError"

\* read_leap_seconds2: "except Exception: raise LeapSecondsError('...' (url,
\* fn))"; the argument is evaluated before LeapSecondsError is made
LsExceptException ==
    /\ ls_pc = "download failed"
    /\ ls_result' = CallOfAString
    /\ ls_pc' = "done"
    /\ UNCHANGED <<ls_file, ls_tmp, ls_remote, ls_read, ls_exc, ls_downloads,
                   ls_parses>>
    /\ UNCHANGED notLeap

\* read_leap_seconds2: the last line, "return parse_leap_seconds_list(fn)"
LsParseAgain ==
    /\ ls_pc = "parse again"
    /\ ls_parses' = ls_parses + 1
    /\ ls_result' = parse_leap_seconds_list(ls_file)
    /\ ls_pc' = "done"
    /\ UNCHANGED <<ls_file, ls_tmp, ls_remote, ls_read, ls_exc, ls_downloads>>
    /\ UNCHANGED notLeap

LeapNext ==
    \/ LsParseFirst
    \/ DlUrlopen
    \/ DlOpenTmp
    \/ DlCopy
    \/ DlRename
    \/ LsExceptException
    \/ LsParseAgain

(***************************************************************************)
(* make_stationxml and consistency_merge                                   *)
(***************************************************************************)

\* Codes are numbered in the order Python sorts the strings they stand for
\* (1 for 'NA', 2 for 'NB'; 1 for '', 2 for '00'; 1 for 'BHN', 2 for 'BHZ').
NetCodes == {1, 2}
StaCodes == {1, 2}
LocCodes == {1, 2}
ChaCodes == {1, 2}
\* the values a record's latitude, longitude and elevation take
Lats == {1, 2}
Lons == {5}
Elevations == {7}

\* the longest sequence of records passed to make_stationxml
MaxRecords == 2

\* an EnhancedSacPzResponse, as far as make_stationxml groups and sorts by it
Records == [net : NetCodes, sta : StaCodes, loc : LocCodes, cha : ChaCodes,
            lat : Lats, lon : Lons, elevation : Elevations]

Policies == {"raise", "warn", "ignore"}

RECURSIVE SeqsUpTo(_, _)
SeqsUpTo(S, n) ==
    IF n = 0 THEN {<<>>}
    ELSE LET shorter == SeqsUpTo(S, n - 1)
         IN shorter \cup {Append(q, x) : q \in {r \in shorter : Len(r) = n - 1}, x \in S}

Range(q) == {q[n] : n \in 1 .. Len(q)}

\* Python's order on tuples of two codes
PairLess(a, b) == a[1] < b[1] \/ (a[1] = b[1] /\ a[2] < b[2])

RECURSIVE SortedPairsDescending(_)
\* sorted(..., reverse=True) of a collection of distinct pairs
SortedPairsDescending(S) ==
    IF S = {} THEN <<>>
    ELSE LET most == CHOOSE a \in S : \A b \in S : a = b \/ PairLess(b, a)
         IN <<most>> \o SortedPairsDescending(S \ {most})

RECURSIVE SortedPairs(_)
\* sorted(...) of a collection of distinct pairs
SortedPairs(S) ==
    IF S = {} THEN <<>>
    ELSE LET least == CHOOSE a \in S : \A b \in S : a = b \/ PairLess(a, b)
         IN <<least>> \o SortedPairs(S \ {least})

RECURSIVE SortedNumbers(_)
\* sorted(networks.keys())
SortedNumbers(S) ==
    IF S = {} THEN <<>>
    ELSE LET least == CHOOSE a \in S : \A b \in S : a <= b
         IN <<least>> \o SortedNumbers(S \ {least})

\* the key "lambda c: (c.code, c.location_code)", with the two codes swapped
ChannelKeySwapped(c) == <<c.code, c.location_code>>

\* the key "lambda c: (c.location_code, c.code)"
ChannelKey(c) == <<c.location_code, c.code>>

RECURSIVE InsertChannel(_, _)
\* c put into the sorted list q behind every channel whose key is not
\* greater, as a stable sort leaves it
InsertChannel(c, q) ==
    IF q = <<>> THEN <<c>>
    ELSE IF PairLess(ChannelKey(c), ChannelKey(q[1])) THEN <<c>> \o q
    ELSE <<q[1]>> \o InsertChannel(c, Tail(q))

RECURSIVE SortedChannels(_)
\* sorted(station_channels[net, sta], key=lambda c: (c.location_code, c.code))
SortedChannels(q) ==
    IF q = <<>> THEN <<>>
    ELSE InsertChannel(q[Len(q)], SortedChannels(SubSeq(q, 1, Len(q) - 1)))

\* fs.Channel(code=cha, location_code=loc, latitude=..., ...)
Channel(cr) == [code |-> cr.cha, location_code |-> cr.loc, latitude |-> cr.lat,
                longitude |-> cr.lon, elevation |-> cr.elevation]

\* the records of the group (net, sta), in the order they came
IsOf(cr, key) == <<cr.net, cr.sta>> = key
RECURSIVE GroupOf(_, _)
GroupOf(responses, key) ==
    IF responses = <<>> THEN <<>>
    ELSE (IF IsOf(responses[1], key) THEN <<responses[1]>> ELSE <<>>)
         \o GroupOf(Tail(responses), key)

\* station_coords[net, sta]: (codes, lat, lon, elevation) of every record
CoordsOf(group) ==
    [n \in 1 .. Len(group) |->
        <<<<group[n].net, group[n].sta, group[n].loc, group[n].cha>>,
          group[n].lat, group[n].lon, group[n].elevation>>]

\* station_channels[net, sta]
ChannelsOf(group) == [n \in 1 .. Len(group) |-> Channel(group[n])]

\* consistency_check: the tuples, less their first element, are not all alike
Inconsistent(list_of_tuples) ==
    /\ Len(list_of_tuples) >= 2
    /\ \E n \in 2 .. Len(list_of_tuples) :
          Tail(list_of_tuples[n]) # Tail(list_of_tuples[1])

Count(x, e) == Cardinality({n \in 1 .. Len(x) : x[n] = e})

\* sorted(c.keys(), key=lambda k: c[k])[0], a value counted least often
leastfrequent(x) ==
    {e \in Range(x) : \A e2 \in Range(x) : Count(x, e) <= Count(x, e2)}

\* mostfrequent(x): sorted(c.keys(), key=lambda k: c[k])[-1] is a value
\* counted most often; among several, the dictionary's order picks one
mostfrequent(x) ==
    {e \in Range(x) : \A e2 \in Range(x) : Count(x, e) >= Count(x, e2)}

Column(list_of_tuples, k) ==
    [n \in 1 .. Len(list_of_tuples) |-> list_of_tuples[n][k]]

\* consistency_merge: the outcomes it can have, a returned tuple or an
\* exception
consistency_merge(list_of_tuples, error) ==
    IF Len(list_of_tuples) = 0
    THEN {[kind |-> "Exception", val |-> <<>>]}
    ELSE IF ~Inconsistent(list_of_tuples)
    THEN {[kind |-> "tuple", val |-> Tail(list_of_tuples[1])]}
    ELSE IF error = "raise"
    THEN {[kind |-> "Inconsistency", val |-> <<>>]}
    ELSE {[kind |-> "tuple", val |-> <<a, b, c>>] :
             a \in mostfrequent(Column(list_of_tuples, 2)),
             b \in mostfrequent(Column(list_of_tuples, 3)),
             c \in mostfrequent(Column(list_of_tuples, 4))}

\* fs.Station(code=sta, latitude=lat, ..., channel_list=sorted(...))
Station(key, merged, group) ==
    [code |-> key[2], latitude |-> merged[1], longitude |-> merged[2],
     elevation |-> merged[3], channel_list |-> SortedChannels(ChannelsOf(group))]

RECURSIVE StationLoop(_, _, _, _)
\* "for (net, sta), v in sorted(station_coords.iteritems())": networks after
\* the keys from the n-th on, given the merge outcome picked for every key;
\* networks maps a code to the station_list of its Network
StationLoop(keys, n, networks, pick) ==
    IF n > Len(keys) THEN [kind |-> "FDSNStationXML", networks |-> networks]
    ELSE LET key == keys[n]
             net == key[1]
             m == pick[key]
             created == IF net \in DOMAIN networks THEN networks
                        ELSE networks @@ (net :> <<>>)
         IN IF m.kind # "tuple" THEN [kind |-> m.kind, networks |-> <<>>]
            ELSE StationLoop(keys, n + 1,
                     [created EXCEPT ![net] =
                         Append(@, Station(key, m.val, pick[key].group))],
                     pick)

\* the document: network_list=[networks[net_] for net_ in sorted(...)]
Document(r) ==
    IF r.kind # "FDSNStationXML" THEN [kind |-> r.kind, network_list |-> <<>>]
    ELSE LET codes == SortedNumbers(DOMAIN r.networks)
         IN [kind |-> r.kind,
             network_list |->
                [n \in 1 .. Len(codes) |->
                    [code |-> codes[n], station_list |-> r.networks[codes[n]]]]]

\* make_stationxml(responses, inconsistencies): the documents it can return
\* (one for every way consistency_merge can come out) or the exception
make_stationxml(responses, inconsistencies) ==
    LET keySet == {<<responses[n].net, responses[n].sta>> : n \in 1 .. Len(responses)}
        keys == SortedPairs(keySet)
        options == [key \in keySet |->
                      {[kind |-> m.kind, val |-> m.val,
                        group |-> GroupOf(responses, key)] :
                          m \in consistency_merge(
                                   CoordsOf(GroupOf(responses, key)),
                                   inconsistencies)}]
        picks == {pick \in [keySet -> UNION {options[key] : key \in keySet}] :
                     \A key \in keySet : pick[key] \in options[key]}
    IN {Document(StationLoop(keys, 1, <<>>, pick)) : pick \in picks}

NoDoc == [kind |-> "None", network_list |-> <<>>]

StationInit ==
    /\ sx_responses = <<>>
    /\ sx_policy = "None"
    /\ sx_doc = NoDoc

\* make_stationxml is about to be called on any sequence of records
StationStart ==
    /\ sx_responses \in SeqsUpTo(Records, MaxRecords)
    /\ sx_policy = "None"
    /\ sx_doc = NoDoc

\* the call make_stationxml(responses, inconsistencies=policy)
MakeStationxml(policy) ==
    /\ sx_doc = NoDoc
    /\ sx_policy' = policy
    /\ sx_doc' \in make_stationxml(sx_responses, policy)
    /\ UNCHANGED sx_responses
    /\ UNCHANGED notStation

StationNext == \E policy \in Policies : MakeStationxml(policy)

(***************************************************************************)
(* Time strings: str_to_time and time_to_str without util_ext, and the     *)
(* 'end' field of iload_fh.  A string is a sequence of characters; a       *)
(* timestamp is a double, held as whole days and seconds plus a fraction   *)
(* num / 2^dexp of a second, 2^-dexp being the spacing of the doubles at   *)
(* its magnitude.                                                          *)
(***************************************************************************)

DigitChars == <<"0", "1", "2", "3", "4", "5", "6", "7", "8", "9">>
IsDigit(ch) == \E n \in 1 .. 10 : DigitChars[n] = ch
DigitOf(ch) == (CHOOSE n \in 1 .. 10 : DigitChars[n] = ch) - 1
CharOf(n) == DigitChars[n + 1]

RECURSIVE Pow(_, _)
Pow(b, e) == IF e = 0 THEN 1 ELSE b * Pow(b, e - 1)

RECURSIVE NumberOf(_)
\* the number a sequence of digit characters writes
NumberOf(q) ==
    IF q = <<>> THEN 0
    ELSE 10 * NumberOf(SubSeq(q, 1, Len(q) - 1)) + DigitOf(q[Len(q)])

RECURSIVE Padded(_, _)
\* '%0wi' % n
Padded(n, w) ==
    IF w = 0 THEN <<>> ELSE Append(Padded(n \div 10, w - 1), CharOf(n % 10))

AllDigits(q) == \A n \in 1 .. Len(q) : IsDigit(q[n])

\* s.endswith(x)
EndsWith(s, x) ==
    Len(s) >= Len(x) /\ SubSeq(s, Len(s) - Len(x) + 1, Len(s)) = x

\* _endswith_n(s, endings): the index, from 0, of the first ending s ends
\* with, or -1
endswith_n(s, endings) ==
    IF \E ix \in 1 .. Len(endings) : EndsWith(s, endings[ix])
    THEN (CHOOSE ix \in 1 .. Len(endings) :
             /\ EndsWith(s, endings[ix])
             /\ \A y \in 1 .. (ix - 1) : ~EndsWith(s, endings[y])) - 1
    ELSE -1

\* s.rfind('.'), an index from 0, or -1
rfind_dot(s) ==
    IF \E n \in 1 .. Len(s) : s[n] = "."
    THEN (CHOOSE n \in 1 .. Len(s) :
             s[n] = "." /\ \A y \in (n + 1) .. Len(s) : s[y] # ".") - 1
    ELSE -1

\* s[dotpos:] and s[:dotpos]
From(s, pos) == SubSeq(s, pos + 1, Len(s))
UpTo(s, pos) == SubSeq(s, 1, pos)

FRAC == <<"F", "R", "A", "C">>
\* fixed_endings = '.FRAC', '.1FRAC', '.2FRAC', '.3FRAC'
fixed_endings == << <<".">> \o FRAC, <<".", "1">> \o FRAC,
                    <<".", "2">> \o FRAC, <<".", "3">> \o FRAC >>
OPTFRAC == <<".", "O", "P", "T">> \o FRAC

\* float(x) for x = s[dotpos:], which begins with the dot: the decimal
\* fraction written, or ValueError when no digits follow or something else
\* than digits does
float_of(x) ==
    IF Len(x) >= 2 /\ x[1] = "." /\ AllDigits(Tail(x))
    THEN [kind |-> "float", digits |-> Tail(x)]
    ELSE [kind |-> "ValueError", digits |-> <<>>]

NoFrac == [kind |-> "float", digits |-> <<>>]

\* ---- the calendar: time.strptime, calendar.timegm, time.gmtime, strftime

IsLeap(y) == (y % 4 = 0 /\ y % 100 # 0) \/ y % 400 = 0

DaysIn(y, m) ==
    IF m = 2 THEN (IF IsLeap(y) THEN 29 ELSE 28)
    ELSE IF m \in {4, 6, 9, 11} THEN 30 ELSE 31

\* days from 1970-01-01 to the date (the proleptic Gregorian calendar of
\* datetime.date.toordinal)
DaysFromCivil(y0, m, d) ==
    LET y == IF m <= 2 THEN y0 - 1 ELSE y0
        era == y \div 400
        yoe == y - era * 400
        mp == IF m > 2 THEN m - 3 ELSE m + 9
        doy == (153 * mp + 2) \div 5 + d - 1
        doe == yoe * 365 + yoe \div 4 - yoe \div 100 + doy
    IN era * 146097 + doe - 719468

\* the date that many days from 1970-01-01
CivilFromDays(z0) ==
    LET z == z0 + 719468
        era == z \div 146097
        doe == z - era * 146097
        yoe == (doe - doe \div 1460 + doe \div 36524 - doe \div 146096) \div 365
        doy == doe - (365 * yoe + yoe \div 4 - yoe \div 100)
        mp == (5 * doy + 2) \div 153
        d == doy - (153 * mp + 2) \div 5 + 1
        m == IF mp < 10 THEN mp + 3 ELSE mp - 9
        y == yoe + era * 400
    IN [Y |-> IF m <= 2 THEN y + 1 ELSE y, m |-> m, d |-> d]

SecondsPerDay == 86400

\* the fields strptime fills when the format names none
DefaultFields == [Y |-> 1900, m |-> 1, d |-> 1, H |-> 0, M |-> 0, S |-> 0]

NoMatch == [ok |-> FALSE, val |-> 0, next |-> 0]

\* the two-digit and one-digit alternatives of strptime's pattern for a
\* directive: %m 1[0-2]|0[1-9]|[1-9], %d 3[01]|[12]\d|0[1-9]|[1-9]| [1-9],
\* %H 2[0-3]|[0-1]\d|\d, %M [0-5]\d|\d, %S 6[0-1]|[0-5]\d|\d
TwoDigitsFit(c, v) ==
    CASE c = "m" -> v >= 1 /\ v <= 12
      [] c = "d" -> v >= 1 /\ v <= 31
      [] c = "H" -> v <= 23
      [] c = "M" -> v <= 59
      [] c = "S" -> v <= 61
      [] OTHER -> FALSE

OneDigitFits(c, v) == IF c \in {"m", "d"} THEN v >= 1 ELSE c \in {"H", "M", "S"}

\* what the pattern of directive c matches in s from position si on (the
\* alternatives are tried in the pattern's order; in the formats used here a
\* literal or the end follows every directive, so the first alternative that
\* matches is the only one that can lead to a match of the whole string)
MatchField(c, s, si) ==
    LET has(n) == si + n - 1 <= Len(s) /\ AllDigits(SubSeq(s, si, si + n - 1))
        num(n) == NumberOf(SubSeq(s, si, si + n - 1))
    IN IF c = "Y"
       THEN (IF has(4) THEN [ok |-> TRUE, val |-> num(4), next |-> si + 4]
             ELSE NoMatch)
       ELSE IF has(2) /\ TwoDigitsFit(c, num(2))
       THEN [ok |-> TRUE, val |-> num(2), next |-> si + 2]
       ELSE IF has(1) /\ OneDigitFits(c, num(1))
       THEN [ok |-> TRUE, val |-> num(1), next |-> si + 1]
       ELSE IF /\ c = "d" /\ si + 1 <= Len(s) /\ s[si] = " "
               /\ IsDigit(s[si + 1]) /\ DigitOf(s[si + 1]) >= 1
       THEN [ok |-> TRUE, val |-> DigitOf(s[si + 1]), next |-> si + 2]
       ELSE NoMatch

RECURSIVE SkipSpaces(_, _)
SkipSpaces(s, si) ==
    IF si <= Len(s) /\ s[si] = " " THEN SkipSpaces(s, si + 1) ELSE si

RECURSIVE MatchFormat(_, _, _, _, _)
\* the match of strptime's pattern for format against all of s: the fields
\* found, or a failure (ValueError)
MatchFormat(format, fi, s, si, fields) ==
    IF fi > Len(format)
    THEN [ok |-> si > Len(s), fields |-> fields]     \* unconverted data remains
    ELSE IF format[fi] = "%"
    THEN IF fi + 1 > Len(format) \/ format[fi + 1] \notin {"Y", "m", "d", "H", "M", "S"}
         THEN [ok |-> FALSE, fields |-> fields]
         ELSE LET c == format[fi + 1]
                  f == MatchField(c, s, si)
              IN IF ~f.ok THEN [ok |-> FALSE, fields |-> fields]
                 ELSE MatchFormat(format, fi + 2, s, f.next,
                                  [fields EXCEPT ![c] = f.val])
    ELSE IF format[fi] = " "
    THEN IF si <= Len(s) /\ s[si] = " "
         THEN MatchFormat(format, fi + 1, s, SkipSpaces(s, si), fields)
         ELSE [ok |-> FALSE, fields |-> fields]
    ELSE IF si <= Len(s) /\ s[si] = format[fi]
    THEN MatchFormat(format, fi + 1, s, si + 1, fields)
    ELSE [ok |-> FALSE, fields |-> fields]

\* time.strptime(s, format): the fields, or ValueError (no match, or a day
\* the month does not have)
strptime(s, format) ==
    LET r == MatchFormat(format, 1, s, 1, DefaultFields)
    IN IF r.ok /\ r.fields.d <= DaysIn(r.fields.Y, r.fields.m)
       THEN [kind |-> "struct_time", tm |-> r.fields]
       ELSE [kind |-> "ValueError", tm |-> DefaultFields]

\* calendar.timegm(tm): whole days and seconds since the epoch
timegm(tm) ==
    LET secs == tm.H * 3600 + tm.M * 60 + tm.S
        days == DaysFromCivil(tm.Y, tm.m, 1) + tm.d - 1
    IN [days |-> days + secs \div SecondsPerDay, sod |-> secs % SecondsPerDay]

\* time.gmtime(ts)
gmtime(t) ==
    LET c == CivilFromDays(t.days)
    IN [Y |-> c.Y, m |-> c.m, d |-> c.d, H |-> t.sod \div 3600,
        M |-> (t.sod % 3600) \div 60, S |-> t.sod % 60]

RECURSIVE strftime(_, _, _)
\* time.strftime(format, tm), from position fi of the format on
strftime(format, fi, tm) ==
    IF fi > Len(format) THEN <<>>
    ELSE IF /\ format[fi] = "%" /\ fi + 1 <= Len(format)
            /\ format[fi + 1] \in {"Y", "m", "d", "H", "M", "S"}
    THEN (IF format[fi + 1] = "Y" THEN Padded(tm.Y, 4)
          ELSE Padded(tm[format[fi + 1]], 2)) \o strftime(format, fi + 2, tm)
    ELSE <<format[fi]>> \o strftime(format, fi + 1, tm)

\* ---- doubles

\* the bits of a double's fraction
MantissaBits == 52

RECURSIVE Pow2Time(_)
\* 2^k seconds as whole days and seconds, k >= 16
Pow2Time(k) ==
    IF k = 16 THEN [days |-> 0, sod |-> 65536]
    ELSE LET h == Pow2Time(k - 1)
         IN [days |-> 2 * h.days + (2 * h.sod) \div SecondsPerDay,
             sod |-> (2 * h.sod) % SecondsPerDay]

Pow2Times == [k \in 16 .. 40 |-> Pow2Time(k)]

AtLeast(t, u) == t.days > u.days \/ (t.days = u.days /\ t.sod >= u.sod)

\* the k with 2^k <= t < 2^(k+1), for a time of 2^16 seconds or more
Binade(t) ==
    CHOOSE k \in 16 .. 39 :
        AtLeast(t, Pow2Times[k]) /\ ~AtLeast(t, Pow2Times[k + 1])

\* seconds + fracsec in double arithmetic: the decimal fraction digits /
\* 10^n is rounded to the nearest multiple of 2^-dexp, dexp = 52 - binade
\* (5^n is odd, so no tie arises)
AddFraction(t, digits) ==
    LET dexp == MantissaBits - Binade(t)
        n == Len(digits)
        d == NumberOf(digits)
        A == Pow(2, dexp - n)
        B == Pow(5, n)
        r == (d % B) * A
        q == (d \div B) * A + r \div B + (IF 2 * (r % B) > B THEN 1 ELSE 0)
        full == Pow(2, dexp)
        secs == t.sod + (IF q = full THEN 1 ELSE 0)
    IN [days |-> t.days + secs \div SecondsPerDay, sod |-> secs % SecondsPerDay,
        num |-> IF q = full THEN 0 ELSE q, dexp |-> dexp]

RECURSIVE FracDigits(_, _, _)
\* the first x decimal digits of rem / full, and what is left over
FracDigits(rem, full, x) ==
    IF x = 0 THEN [digits |-> <<>>, rem |-> rem]
    ELSE LET rest == FracDigits((rem * 10) % full, full, x - 1)
         IN [digits |-> <<CharOf((rem * 10) \div full)>> \o rest.digits,
             rem |-> rest.rem]

RECURSIVE Increment(_)
\* the digits plus one in the last place; carry when they were all nines
Increment(q) ==
    IF q = <<>> THEN [digits |-> <<>>, carry |-> TRUE]
    ELSE IF q[Len(q)] # "9"
    THEN [digits |-> [q EXCEPT ![Len(q)] = CharOf(DigitOf(@) + 1)], carry |-> FALSE]
    ELSE LET h == Increment(SubSeq(q, 1, Len(q) - 1))
         IN [digits |-> Append(h.digits, "0"), carry |-> h.carry]

\* '%.xf' % tfrac with the digits cut off instead of rounded
FormatFracTruncating(num, dexp, x) ==
    <<"0", ".">> \o FracDigits(num, Pow(2, dexp), x).digits

\* '%.xf' % tfrac for tfrac = num / 2^dexp: x decimals, rounded to nearest,
\* a tie to the even digit
FormatFrac(num, dexp, x) ==
    LET full == Pow(2, dexp)
        f == FracDigits(num, full, x)
        up == \/ 2 * f.rem > full
              \/ 2 * f.rem = full /\ DigitOf(f.digits[x]) % 2 = 1
        r == IF up THEN Increment(f.digits) ELSE [digits |-> f.digits, carry |-> FALSE]
    IN <<IF r.carry THEN "1" ELSE "0", ".">> \o r.digits

\* ---- str_to_time and time_to_str

\* format[:-n]
DropLast(q, n) == SubSeq(q, 1, Len(q) - n)

NoTime == [days |-> 0, sod |-> 0, num |-> 0, dexp |-> 0]
Raised(e) == [kind |-> e, t |-> NoTime]

\* the last statement of str_to_time: timegm(strptime(s, format)) + fracsec,
\* a ValueError of strptime becoming TimeStrError
ParseAndAdd(s, format, fracsec) ==
    LET p == strptime(s, format)
    IN IF p.kind = "ValueError" THEN Raised("TimeStrError")
       ELSE [kind |-> "float", t |-> AddFraction(timegm(p.tm), fracsec.digits)]

\* str_to_time with the index of the ending found counted from 1
str_to_time_from_one(s, format) ==
    LET iend == IF endswith_n(format, fixed_endings) = -1 THEN -1
                ELSE endswith_n(format, fixed_endings) + 1
        dotpos == rfind_dot(s)
    IN IF iend # -1
       THEN IF dotpos = -1 THEN Raised("FractionalSecondsMissing")
            ELSE IF iend > 0 /\ iend # Len(s) - dotpos - 1
            THEN Raised("FractionalSecondsWrongNumberOfDigits")
            ELSE LET fracsec == float_of(From(s, dotpos))
                 IN IF fracsec.kind = "ValueError" THEN Raised("ValueError")
                    ELSE ParseAndAdd(UpTo(s, dotpos),
                                     DropLast(format, Len(fixed_endings[iend])),
                                     fracsec)
       ELSE ParseAndAdd(s, format, NoFrac)

\* str_to_time(s, format): a float, or the exception that leaves it
str_to_time(s, format) ==
    LET iend == endswith_n(format, fixed_endings)
        dotpos == rfind_dot(s)
    IN IF iend # -1
       THEN IF dotpos = -1 THEN Raised("FractionalSecondsMissing")
            ELSE IF iend > 0 /\ iend # Len(s) - dotpos - 1
            THEN Raised("FractionalSecondsWrongNumberOfDigits")
            ELSE LET fracsec == float_of(From(s, dotpos))
                 IN IF fracsec.kind = "ValueError" THEN Raised("ValueError")
                    ELSE ParseAndAdd(UpTo(s, dotpos),
                                     DropLast(format, Len(fixed_endings[iend + 1])),
                                     fracsec)
       ELSE IF EndsWith(format, OPTFRAC)
       THEN LET fracsec == IF dotpos # -1 /\ Len(From(s, dotpos)) > 1
                           THEN float_of(From(s, dotpos)) ELSE NoFrac
            IN IF fracsec.kind = "ValueError" THEN Raised("ValueError")
               ELSE ParseAndAdd(IF dotpos # -1 THEN UpTo(s, dotpos) ELSE s,
                                DropLast(format, 8), fracsec)
       ELSE ParseAndAdd(s, format, NoFrac)

\* re_frac = r'\.[1-9]FRAC' matches format at position n
FracAt(format, n) ==
    /\ n + 5 <= Len(format)
    /\ format[n] = "."
    /\ IsDigit(format[n + 1]) /\ format[n + 1] # "0"
    /\ SubSeq(format, n + 2, n + 5) = FRAC

\* time_to_str with the fraction substituted and the seconds left as they
\* are
time_to_str_without_carry(t, format) ==
    IF \E n \in 1 .. Len(format) : FracAt(format, n)
    THEN LET n == CHOOSE n \in 1 .. Len(format) :
                      FracAt(format, n) /\ \A y \in 1 .. (n - 1) : ~FracAt(format, y)
             sfrac == FormatFrac(t.num, t.dexp, DigitOf(format[n + 1]))
             subbed == SubSeq(format, 1, n - 1) \o Tail(sfrac)
                           \o SubSeq(format, n + 6, Len(format))
         IN strftime(subbed, 1, gmtime(t))
    ELSE strftime(format, 1, gmtime(t))

\* time_to_str(t, format) for a format given as a string
time_to_str(t, format) ==
    IF \E n \in 1 .. Len(format) : FracAt(format, n)
    THEN LET n == CHOOSE n \in 1 .. Len(format) :
                      FracAt(format, n) /\ \A y \in 1 .. (n - 1) : ~FracAt(format, y)
             sfrac == FormatFrac(t.num, t.dexp, DigitOf(format[n + 1]))
             secs == t.sod + (IF sfrac[1] = "1" THEN 1 ELSE 0)
             ts == [days |-> t.days + secs \div SecondsPerDay,
                    sod |-> secs % SecondsPerDay]
             subbed == SubSeq(format, 1, n - 1) \o Tail(sfrac)
                           \o SubSeq(format, n + 6, Len(format))
         IN strftime(subbed, 1, gmtime(ts))
    ELSE strftime(format, 1, gmtime(t))

\* ---- the 'end' field of an enhanced SACPZ file

\* this_year = time.gmtime()[0], the year the module was imported in
this_year == 2026

IsoFormat == <<"%", "Y", "-", "%", "m", "-", "%", "d", "T",
               "%", "H", ":", "%", "M", ":", "%", "S">>

None == [kind |-> "None", t |-> NoTime]

\* TimeStrError and its subclasses
TimeStrErrors == {"TimeStrError", "FractionalSecondsMissing",
                  "FractionalSecondsWrongNumberOfDigits"}

\* dummy_aware_str_to_time(s): what it returns, or the exception that leaves
\* it.  The try body calls str_to_time and drops its value, so the function
\* falls off its end when the call succeeds.
dummy_aware_str_to_time(s) ==
    LET r == str_to_time(s, IsoFormat)
    IN IF r.kind = "float" THEN None
       ELSE IF r.kind \in TimeStrErrors
       THEN IF Len(s) >= 4 /\ AllDigits(UpTo(s, 4))
            THEN (IF NumberOf(UpTo(s, 4)) > this_year + 100 THEN None ELSE r)
            ELSE Raised("ValueError")
       ELSE r

\* the try block of iload_fh for a file with these 'start' and 'end' values;
\* others tells whether the remaining fields are present and numbers
iload_fh(start, end, others) ==
    LET tmin == str_to_time(start, IsoFormat)
        tmax == dummy_aware_str_to_time(end)
    IN IF tmin.kind = "float" /\ tmax.kind \in {"float", "None"} /\ others
       THEN [kind |-> "EnhancedSacPzResponse", tmin |-> tmin, tmax |-> tmax]
       ELSE [kind |-> "EnhancedSacPzError", tmin |-> None, tmax |-> None]

\* ---- the strings and formats the operations are called with

Base(sep) == <<"%", "Y", "-", "%", "m", "-", "%", "d", sep,
               "%", "H", ":", "%", "M", ":", "%", "S">>

Seps == {" ", "T"}

Endings == {<<>>, OPTFRAC} \cup {fixed_endings[n] : n \in 1 .. 4}

Formats == {Base(sep) \o e : sep \in Seps, e \in Endings}

RECURSIVE Decimal(_)
\* '%i' % n
Decimal(n) == IF n < 10 THEN <<CharOf(n)>> ELSE Append(Decimal(n \div 10), CharOf(n % 10))

Field(n, w, pad) == IF pad THEN Padded(n, w) ELSE Decimal(n)

\* date and time written with the separator, zero-padded or not
Written(c, sep, pad) ==
    Padded(c[1], 4) \o <<"-">> \o Field(c[2], 2, pad) \o <<"-">> \o Field(c[3], 2, pad)
        \o <<sep>> \o Field(c[4], 2, pad) \o <<":">> \o Field(c[5], 2, pad)
        \o <<":">> \o Field(c[6], 2, pad)

\* calendar times that exist, seconds below 60
CalendarTimes == {<<2010, 1, 2, 3, 4, 5>>, <<2012, 2, 29, 23, 59, 59>>,
                  <<1999, 12, 31, 0, 0, 0>>, <<2599, 12, 31, 23, 59, 59>>}

\* a leap second, a day its month lacks, a month no year has, a dummy date
OtherTimes == {<<2012, 6, 30, 23, 59, 60>>, <<2011, 2, 29, 1, 2, 3>>,
               <<2599, 13, 1, 0, 0, 0>>, <<9999, 99, 99, 99, 99, 99>>}

GoodFractions == {<<".", "0">>, <<".", "5">>, <<".", "1", "2">>,
                  <<".", "0", "0", "0">>, <<".", "1", "2", "3">>,
                  <<".", "9", "9", "9">>, <<".", "1", "2", "3", "4">>}

OtherFractions == {<<>>, <<".">>, <<".", "x">>, <<".", "5", "x">>}

TimeStrings ==
    {Written(c, sep, pad) \o f :
        c \in CalendarTimes \cup OtherTimes, sep \in Seps, pad \in BOOLEAN,
        f \in GoodFractions \cup OtherFractions}

StartFields == {Written(<<2010, 1, 2, 3, 4, 5>>, "T", TRUE),
                Written(<<2010, 1, 2, 3, 4, 5>>, " ", TRUE)}

NoStr == <<"?">>
NoRec == [kind |-> "none", tmin |-> None, tmax |-> None]

TimeInit ==
    /\ tm_pc = "idle"
    /\ tm_s = NoStr
    /\ tm_format = NoStr
    /\ tm_t = None
    /\ tm_str = NoStr
    /\ tm_rec = NoRec

\* a caller holds a string and a format
TimeStart ==
    /\ tm_pc = "called"
    /\ tm_s \in TimeStrings
    /\ tm_format \in Formats
    /\ tm_t = None
    /\ tm_str = NoStr
    /\ tm_rec = NoRec

StrToTime ==
    /\ tm_pc = "called"
    /\ tm_t' = str_to_time(tm_s, tm_format)
    /\ tm_pc' = "parsed"
    /\ UNCHANGED <<tm_s, tm_format, tm_str, tm_rec>>
    /\ UNCHANGED notTime

TimeToStr ==
    /\ tm_pc = "parsed"
    /\ tm_t.kind = "float"
    /\ tm_str' = time_to_str(tm_t.t, tm_format)
    /\ tm_pc' = "printed"
    /\ UNCHANGED <<tm_s, tm_format, tm_t, tm_rec>>
    /\ UNCHANGED notTime

\* iload_fh on a file whose 'end' value is the string
IloadFh ==
    /\ tm_pc = "called"
    /\ \E start \in StartFields, others \in BOOLEAN :
           tm_rec' = iload_fh(start, tm_s, others)
    /\ tm_pc' = "loaded"
    /\ UNCHANGED <<tm_s, tm_format, tm_t, tm_str>>
    /\ UNCHANGED notTime

TimeNext == StrToTime \/ TimeToStr \/ IloadFh

(***************************************************************************)
(* consistency_merge called on its own                                     *)
(***************************************************************************)

\* the longest list of tuples passed to consistency_merge
MaxTuples == 3

\* the labels of the tuples ('STA.N', 'STA.E')
Labels == {1, 2}
\* the values of the second column
SecondValues == {5, 6}

\* (label, v1, v2, v3)
Tuples == Labels \X Lats \X SecondValues \X Elevations

\* "logger.warn(str(e))": consistency_merge logs when the tuples differ and
\* error is 'warn'
consistency_merge_warns(list_of_tuples, error) ==
    Len(list_of_tuples) # 0 /\ Inconsistent(list_of_tuples) /\ error = "warn"

NoMerge == [kind |-> "None", val |-> <<>>]

MergeInit ==
    /\ cm_list = <<>>
    /\ cm_error = "None"
    /\ cm_ret = NoMerge
    /\ cm_logged = FALSE

\* a caller holds a list of tuples
MergeStart ==
    /\ cm_list \in SeqsUpTo(Tuples, MaxTuples)
    /\ cm_error = "None"
    /\ cm_ret = NoMerge
    /\ cm_logged = FALSE

\* the call consistency_merge(cm_list, error=error)
ConsistencyMerge(error) ==
    /\ cm_error = "None"
    /\ cm_error' = error
    /\ cm_ret' \in consistency_merge(cm_list, error)
    /\ cm_logged' = consistency_merge_warns(cm_list, error)
    /\ UNCHANGED cm_list
    /\ UNCHANGED notMerge

MergeNext == \E error \in Policies : ConsistencyMerge(error)

(***************************************************************************)
(* make_iload_family: iload and the loaders it dispatches to.  A path is a *)
(* sequence of names; a record is a number.                                *)
(***************************************************************************)

\* the most sources a collection holds
MaxItems == 2
\* the most sources a collection inside a collection holds
MaxInner == 1

\* the directory tree: data/ holds two files and a directory; c.pz and e.pz
\* lie beside it
Dirs == {<<"data">>, <<"data", "sub">>}
FileRecords ==
    (<<"c.pz">> :> <<1>>) @@ (<<"e.pz">> :> <<5>>)
        @@ (<<"data", "a.pz">> :> <<2>>) @@ (<<"data", "b.pz">> :> <<3, 4>>)
        @@ (<<"data", "sub", "d.pz">> :> <<8>>)

\* op.isdir, op.isfile
isdir(path) == path \in Dirs
isfile(path) == path \in DOMAIN FileRecords

\* os.listdir(dirname), in the order the file system gives
listdir(dirname) ==
    IF dirname = <<"data">> THEN <<"b.pz", "sub", "a.pz">>
    ELSE IF dirname = <<"data", "sub">> THEN <<"d.pz">>
    ELSE <<>>

\* glob.glob(pattern)
glob(pattern) ==
    IF pattern = <<"*.pz">> THEN << <<"c.pz">>, <<"e.pz">> >>
    ELSE IF isdir(pattern) \/ isfile(pattern) THEN <<pattern>>
    ELSE <<>>

\* a source: a string (a path), an object with a read method, or a
\* collection of sources
String(path) == [kind |-> "str", path |-> path, yields |-> <<>>, items |-> <<>>]
FileObject(records) ==
    [kind |-> "file", path |-> <<>>, yields |-> records, items |-> <<>>]
Collection(items) ==
    [kind |-> "list", path |-> <<>>, yields |-> <<>>, items |-> items]

\* what a loader has done: the loaders called, in order, and the records
\* yielded
Nothing == [calls |-> <<>>, records |-> <<>>]
Then(a, b) == [calls |-> a.calls \o b.calls, records |-> a.records \o b.records]
Call(loader, arg) == [calls |-> << <<loader, arg>> >>, records |-> <<>>]

\* itertools.chain.from_iterable taken from the last part to the first
RECURSIVE ChainBackwards(_)
ChainBackwards(parts) ==
    IF parts = <<>> THEN Nothing
    ELSE Then(ChainBackwards(Tail(parts)), parts[1])

\* itertools.chain.from_iterable(parts), and the for loops that yield what
\* the inner loader yields
RECURSIVE Chain(_)
Chain(parts) ==
    IF parts = <<>> THEN Nothing
    ELSE Then(parts[1], Chain(Tail(parts)))

\* the iload_fh given to make_iload_family, on an open file
load_fh(f) == [calls |-> << <<"iload_fh", f.path>> >>, records |-> f.yields]

\* iload_filename(filename): open(filename, 'r'), then iload_fh(f)
iload_filename(filename) ==
    Then(Call("iload_filename", filename),
         load_fh([FileObject(FileRecords[filename]) EXCEPT !.path = filename]))

\* iload_dirname(dirname)
iload_dirname(dirname) ==
    LET entries == listdir(dirname)
    IN Then(Call("iload_dirname", dirname),
            Chain([n \in 1 .. Len(entries) |->
                      IF isfile(Append(dirname, entries[n]))
                      THEN iload_filename(Append(dirname, entries[n]))
                      ELSE Nothing]))

\* iload_glob(pattern)
iload_glob(pattern) ==
    LET fns == glob(pattern)
    IN Then(Call("iload_glob", pattern),
            Chain([n \in 1 .. Len(fns) |-> iload_filename(fns[n])]))

RECURSIVE iload(_)
\* iload(source), iterated to its end
iload(source) ==
    IF source.kind = "str"
    THEN IF isdir(source.path) THEN iload_dirname(source.path)
         ELSE IF isfile(source.path) THEN iload_filename(source.path)
         ELSE iload_glob(source.path)
    ELSE IF source.kind = "file"
    THEN load_fh(source)
    ELSE Chain([n \in 1 .. Len(source.items) |-> iload(source.items[n])])

\* the sources that are not collections
Single ==
    {String(<<"data">>), String(<<"c.pz">>), String(<<"*.pz">>),
     FileObject(<<6, 7>>)}

Inner == {Collection(items) : items \in SeqsUpTo(Single, MaxInner)}

Sources ==
    Single \cup {Collection(items) : items \in SeqsUpTo(Single \cup Inner, MaxItems)}

NoSource == [kind |-> "None", path |-> <<>>, yields |-> <<>>, items |-> <<>>]
NotLoaded == [calls |-> << <<"None", <<>> >> >>, records |-> <<>>]

LoadInit ==
    /\ ld_source = NoSource
    /\ ld_out = NotLoaded

\* a caller holds a source
LoadStart ==
    /\ ld_source \in Sources
    /\ ld_out = NotLoaded

\* list(iload(ld_source))
Iload ==
    /\ ld_out = NotLoaded
    /\ ld_out' = iload(ld_source)
    /\ UNCHANGED ld_source
    /\ UNCHANGED notLoad

LoadNext == Iload

(***************************************************************************)
(* day_start, month_start, year_start and iter_days, iter_months,          *)
(* iter_years.  A timestamp is a number of whole days and seconds since    *)
(* the epoch, plus half a second where half is 1.                          *)
(***************************************************************************)

\* the longest time span, in days, months or years
MaxUnits == 2

Instant(days, sod, half) == [days |-> days, sod |-> sod, half |-> half]

\* timestamp + secs, for a timestamp without fraction
Plus(t, secs) ==
    [days |-> t.days + (t.sod + secs) \div SecondsPerDay,
     sod |-> (t.sod + secs) % SecondsPerDay]

\* int(timestamp): the fraction is cut off, towards zero
int(timestamp) ==
    IF timestamp.half = 1 /\ timestamp.days < 0
    THEN Plus(timestamp, 1)
    ELSE [days |-> timestamp.days, sod |-> timestamp.sod]

day_start(timestamp) ==
    timegm([gmtime(int(timestamp)) EXCEPT !.H = 0, !.M = 0, !.S = 0])

month_start(timestamp) ==
    timegm([gmtime(int(timestamp)) EXCEPT !.d = 1, !.H = 0, !.M = 0, !.S = 0])

year_start(timestamp) ==
    timegm([gmtime(int(timestamp))
                EXCEPT !.m = 1, !.d = 1, !.H = 0, !.M = 0, !.S = 0])

Units == {"day", "month", "year"}

\* the start function each generator uses
unit_start(unit, timestamp) ==
    CASE unit = "day" -> day_start(timestamp)
      [] unit = "month" -> month_start(timestamp)
      [] unit = "year" -> year_start(timestamp)

\* what each generator adds to t: 26*60*60, 24*60*60*33, 24*60*60*369
\* seconds, here in hours
HoursAhead(unit) ==
    CASE unit = "day" -> 26
      [] unit = "month" -> 24 * 33
      [] unit = "year" -> 24 * 369

\* t + the seconds the generator adds (in two steps: the number of seconds
\* of 369 days times 86400 is beyond what a day's seconds can be added to)
Ahead(unit, t) ==
    [days |-> t.days + (t.sod + (HoursAhead(unit) % 24) * 3600) \div SecondsPerDay
                 + HoursAhead(unit) \div 24,
     sod |-> (t.sod + (HoursAhead(unit) % 24) * 3600) % SecondsPerDay]

\* t < tmax, for t without fraction
Before(t, tmax) ==
    \/ t.days < tmax.days
    \/ /\ t.days = tmax.days
       /\ \/ t.sod < tmax.sod
          \/ t.sod = tmax.sod /\ tmax.half = 1

\* the instants a span begins at: around the ends of February in leap years
\* and others (2000, 1900, 2011, 2012), the ends of a 30-day and a 31-day
\* month and of a year, and half a second before the epoch and before the
\* day before it
Beginnings ==
    {Instant(DaysFromCivil(2000, 2, 28), 12 * 3600, 0),
     Instant(DaysFromCivil(1900, 2, 28), SecondsPerDay - 1, 1),
     Instant(DaysFromCivil(2011, 1, 31), 0, 0),
     Instant(DaysFromCivil(2012, 2, 1), 0, 1),
     Instant(DaysFromCivil(2011, 4, 30), 12 * 3600, 0),
     Instant(DaysFromCivil(2011, 12, 31), SecondsPerDay - 1, 0),
     Instant(DaysFromCivil(2099, 12, 1), 12 * 3600, 1),
     Instant(-1, SecondsPerDay - 1, 1),
     Instant(-2, SecondsPerDay - 1, 1)}

\* the length of the longest unit of each kind, in days
LongestUnit(unit) ==
    CASE unit = "day" -> 1
      [] unit = "month" -> 31
      [] unit = "year" -> 366

\* timestamp + 1/2
HalfLater(timestamp) ==
    IF timestamp.half = 0 THEN [timestamp EXCEPT !.half = 1]
    ELSE [days |-> Plus(timestamp, 1).days, sod |-> Plus(timestamp, 1).sod,
          half |-> 0]

\* the ends of the spans beginning at tmin: half a second later, a second
\* later, or up to MaxUnits longest units later
Ends(unit, tmin) ==
    {HalfLater(tmin), HalfLater(HalfLater(tmin))}
    \cup {[tmin EXCEPT !.days = @ + n * LongestUnit(unit)] : n \in 1 .. MaxUnits}

NoInstant == Instant(0, 0, 0)
NoT == [days |-> 0, sod |-> 0]

IterInit ==
    /\ it_unit = "None"
    /\ it_tmin = NoInstant
    /\ it_tmax = NoInstant
    /\ it_pc = "idle"
    /\ it_t = NoT
    /\ it_out = <<>>

\* a caller holds a time span
IterStart ==
    /\ it_unit \in Units
    /\ it_tmin \in Beginnings
    /\ it_tmax \in Ends(it_unit, it_tmin)
    /\ it_pc = "called"
    /\ it_t = NoT
    /\ it_out = <<>>

\* the first next() of the generator, up to the while: t = day_start(tmin)
IterFirst ==
    /\ it_pc = "called"
    /\ it_t' = unit_start(it_unit, it_tmin)
    /\ it_pc' = "while"
    /\ UNCHANGED <<it_unit, it_tmin, it_tmax, it_out>>
    /\ UNCHANGED notIter

\* one turn of the loop: tend = day_start(t + 26*60*60); yield t, tend;
\* t = tend
IterYield ==
    /\ it_pc = "while"
    /\ Before(it_t, it_tmax)
    /\ LET tend == unit_start(it_unit,
                       [days |-> Ahead(it_unit, it_t).days,
                        sod |-> Ahead(it_unit, it_t).sod, half |-> 0])
       IN /\ it_out' = Append(it_out, <<it_t, tend>>)
          /\ it_t' = tend
    /\ UNCHANGED <<it_unit, it_tmin, it_tmax, it_pc>>
    /\ UNCHANGED notIter

\* the loop ends and the generator is exhausted
IterStop ==
    /\ it_pc = "while"
    /\ ~Before(it_t, it_tmax)
    /\ it_pc' = "done"
    /\ UNCHANGED <<it_unit, it_tmin, it_tmax, it_t, it_out>>
    /\ UNCHANGED notIter

IterNext == IterFirst \/ IterYield \/ IterStop

(***************************************************************************)
(* base36encode and base36decode                                           *)
(***************************************************************************)

\* the integers from -MaxBelow to MaxNumber are encoded, and some greater
MaxNumber == 80
MaxBelow == 2

\* alphabet='0123456789ABCDEFGHIJKLMNOPQRSTUVWXYZ'
alphabet ==
    DigitChars \o <<"A", "B", "C", "D", "E", "F", "G", "H", "I", "J", "K", "L", "M",
                    "N", "O", "P", "Q", "R", "S", "T", "U", "V", "W", "X", "Y", "Z">>

\* the loop of base36encode with the digit put behind: base36 + alphabet[i]
RECURSIVE EncodeLoopAppending(_, _)
EncodeLoopAppending(number, base36) ==
    IF number = 0 THEN base36
    ELSE EncodeLoopAppending(number \div 36, base36 \o <<alphabet[(number % 36) + 1]>>)

\* "while number != 0: number, i = divmod(number, 36);
\* base36 = alphabet[i] + base36"
RECURSIVE EncodeLoop(_, _)
EncodeLoop(number, base36) ==
    IF number = 0 THEN base36
    ELSE EncodeLoop(number \div 36, <<alphabet[(number % 36) + 1]>> \o base36)

\* base36encode(number) for an int: the string, or the exception
base36encode(number) ==
    IF number < 0 THEN [kind |-> "ValueError", str |-> <<>>]
    ELSE IF number < 36 THEN [kind |-> "str", str |-> <<alphabet[number + 1]>>]
    ELSE [kind |-> "str", str |-> EncodeLoop(number, <<>>)]

\* the value of a character as a digit of int(x, 36), -1 for none
DigitValue36(ch) ==
    IF \E n \in 1 .. 36 : alphabet[n] = ch
    THEN (CHOOSE n \in 1 .. 36 : alphabet[n] = ch) - 1
    ELSE -1

RECURSIVE Int36(_)
\* int(x, 36) for a string of digits
Int36(x) ==
    IF x = <<>> THEN 0
    ELSE 36 * Int36(SubSeq(x, 1, Len(x) - 1)) + DigitValue36(x[Len(x)])

\* base36decode(number) for a string of the alphabet: the integer, or the
\* exception
base36decode(number) ==
    IF number = <<>> \/ \E n \in 1 .. Len(number) : DigitValue36(number[n]) = -1
    THEN [kind |-> "ValueError", int |-> 0]
    ELSE [kind |-> "int", int |-> Int36(number)]

\* the integers encoded: the small ones and those around the powers of 36,
\* up to the greatest 32-bit integer
Numbers ==
    (-MaxBelow .. MaxNumber)
        \cup {36 * 36 - 1, 36 * 36, 36 * 36 * 36 - 1, 36 * 36 * 36,
              36 * 36 * 36 * 36 + 35, 36 * 36 * 36 * 36 * 36 - 1,
              2147483647}

NotEncoded == [kind |-> "None", str |-> <<>>]
NotDecoded == [kind |-> "None", int |-> 0]

Base36Init ==
    /\ b36_pc = "idle"
    /\ b36_number = 0
    /\ b36_encoded = NotEncoded
    /\ b36_decoded = NotDecoded

Base36Start ==
    /\ b36_pc = "called"
    /\ b36_number \in Numbers
    /\ b36_encoded = NotEncoded
    /\ b36_decoded = NotDecoded

Base36Encode ==
    /\ b36_pc = "called"
    /\ b36_encoded' = base36encode(b36_number)
    /\ b36_pc' = "encoded"
    /\ UNCHANGED <<b36_number, b36_decoded>>
    /\ UNCHANGED notBase36

Base36Decode ==
    /\ b36_pc = "encoded"
    /\ b36_encoded.kind = "str"
    /\ b36_decoded' = base36decode(b36_encoded.str)
    /\ b36_pc' = "decoded"
    /\ UNCHANGED <<b36_number, b36_encoded>>
    /\ UNCHANGED notBase36

Base36Next == Base36Encode \/ Base36Decode

(***************************************************************************)
(* unpack_fixed.  A format is the sequence of its fields, each with its    *)
(* type, its width and whether a '?' follows; a line is a sequence of      *)
(* characters.                                                             *)
(***************************************************************************)

\* the most fields a format has
MaxFields == 3
\* the length of the line
LineLength == 4

FormField(typ, l, optional) == [typ |-> typ, l |-> l, optional |-> optional]

\* line[ipos:ipos+l]
Slice(line, ipos, l) ==
    SubSeq(line, ipos + 1, IF ipos + l < Len(line) THEN ipos + l ELSE Len(line))

RECURSIVE strip(_)
\* s.strip()
strip(s) ==
    IF s = <<>> THEN s
    ELSE IF s[1] = " " THEN strip(Tail(s))
    ELSE IF s[Len(s)] = " " THEN strip(SubSeq(s, 1, Len(s) - 1))
    ELSE s

\* the callbacks passed as callargs
callargs == <<"first callback", "second callback">>

CastError == [kind |-> "error", val |-> <<>>]

\* cast(s) for the cast of the field type (cb is the callback of a '@'
\* field): the value, or an error where int or float raise
Cast(typ, cb, s) ==
    CASE typ = "A" -> [kind |-> "str", val |-> s]
      [] typ = "a" -> [kind |-> "str", val |-> strip(s)]
      [] typ \in {"i", "f"} ->
            IF strip(s) # <<>> /\ AllDigits(strip(s))
            THEN [kind |-> IF typ = "i" THEN "int" ELSE "float",
                  val |-> <<NumberOf(strip(s))>>]
            ELSE CastError
      [] typ = "@" -> [kind |-> cb, val |-> s]

NoneValue == [kind |-> "None", val |-> <<>>]

\* icall after a field when a callback is counted only where it is applied
NextCallWhenApplied(icall, form, s) ==
    IF form.typ = "@" /\ ~(form.optional /\ strip(s) = <<>>)
    THEN icall + 1 ELSE icall

\* icall after a field: "if cast == 'extra': ...; icall += 1"
NextCall(icall, form, s) == IF form.typ = "@" THEN icall + 1 ELSE icall

RECURSIVE UnpackLoop(_, _, _, _, _, _)
\* "for form in format.split(',')" from the n-th field on
UnpackLoop(format, n, line, ipos, icall, values) ==
    IF n > Len(format) THEN [kind |-> "list", values |-> values]
    ELSE LET form == format[n]
             s == Slice(line, ipos, form.l)
         IN IF form.typ = "@" /\ icall >= Len(callargs)
            THEN [kind |-> "IndexError", values |-> <<>>]
            ELSE IF form.typ = "x"
            THEN UnpackLoop(format, n + 1, line, ipos + form.l, icall, values)
            ELSE IF form.optional /\ strip(s) = <<>>
            THEN UnpackLoop(format, n + 1, line, ipos + form.l,
                            NextCall(icall, form, s), Append(values, NoneValue))
            ELSE LET v == Cast(form.typ,
                               IF form.typ = "@" THEN callargs[icall + 1] ELSE "",
                               s)
                 IN IF v = CastError
                    THEN [kind |-> "UnpackError", values |-> <<>>]
                    ELSE UnpackLoop(format, n + 1, line, ipos + form.l,
                                    NextCall(icall, form, s), Append(values, v))

\* unpack_fixed(format, line, *callargs): the list, or the exception
unpack_fixed(format, line) == UnpackLoop(format, 1, line, 0, 0, <<>>)

\* the fields formats are made of: 'x1', 'a2', 'a2?', 'i1', 'i1?', '@1',
\* '@1?'
FormFields ==
    {FormField("x", 1, FALSE), FormField("a", 2, FALSE), FormField("a", 2, TRUE),
     FormField("i", 1, FALSE), FormField("i", 1, TRUE),
     FormField("@", 1, FALSE), FormField("@", 1, TRUE)}

\* the formats: one field at least, as format.split(',') gives
UnpackFormats ==
    (SeqsUpTo(FormFields, MaxFields) \ {<<>>})
        \cup { <<FormField("A", 2, TRUE), FormField("f", 2, FALSE)>>,
               <<FormField("f", 1, TRUE), FormField("A", 2, FALSE)>> }

\* the lines: blanks and the digit 7 in every place, some with a letter
Lines ==
    [1 .. LineLength -> {" ", "7"}]
        \cup {[n \in 1 .. LineLength |-> IF n = k THEN "b" ELSE " "] :
                 k \in 1 .. LineLength}

NotUnpacked == [kind |-> "None", values |-> <<>>]

UnpackInit ==
    /\ up_format = <<>>
    /\ up_line = <<>>
    /\ up_ret = NotUnpacked

UnpackStart ==
    /\ up_format \in UnpackFormats
    /\ up_line \in Lines
    /\ up_ret = NotUnpacked

\* the call unpack_fixed(up_format, up_line, *callargs)
UnpackFixed ==
    /\ up_ret = NotUnpacked
    /\ up_ret' = unpack_fixed(up_format, up_line)
    /\ UNCHANGED <<up_format, up_line>>
    /\ UNCHANGED notUnpack

UnpackNext == UnpackFixed

(***************************************************************************)
(* The caches of the process: GlobalVars.reuse_store, the coefficients of  *)
(* decimate_coeffs and _pattern_cache.  A dictionary is a function from    *)
(* its keys to its values.                                                 *)
(***************************************************************************)

\* the most patterns in a list given to match_nslc
MaxPatterns == 2

EmptyDict == [key \in {} |-> <<>>]

\* "cache[key] = value" whether the key is there or not
Assigned(cache, key, value) ==
    [k \in DOMAIN cache \cup {key} |-> IF k = key THEN value ELSE cache[k]]

\* "if key not in cache: cache[key] = value"
IfAbsent(cache, key, value) ==
    IF key \in DOMAIN cache THEN cache
    ELSE [k \in DOMAIN cache \cup {key} |-> IF k = key THEN value ELSE cache[k]]

\* an object given to reuse: objects of equal value are one key of a
\* dictionary, whichever of them is asked for; a list cannot be a key
Object(value, id, hashable) == [value |-> value, id |-> id, hashable |-> hashable]

Value(kind, val) == [kind |-> kind, val |-> val]
Exception(kind) == [kind |-> kind, val |-> <<>>]

\* reuse(x): the store it leaves and what it returns or raises
reuse(grs, x) ==
    IF ~x.hashable THEN [store |-> grs, ret |-> Exception("TypeError")]
    ELSE LET store == IfAbsent(grs, x.value, x)
         IN [store |-> store, ret |-> Value("object", store[x.value])]

\* an argument q of decimate_coeffs: an integer, or a number of another type
Integer(n) == [isint |-> TRUE, val |-> n]
Float(n) == [isint |-> FALSE, val |-> n]

\* the float a/q, a given in tenths: floats of different small q differ
Quotient(a, q) == <<a, q>>

\* "if n is None": the order of the filter
OrderOf(n, ftype) == IF n # 0 THEN n ELSE IF ftype = "fir" THEN 30 ELSE 8

\* signal.firwin(n+1, 1./q, window='hamming')
firwin(n, q) == [design |-> "firwin", args |-> <<n + 1, Quotient(10, q)>>]
\* signal.cheby1(n, 0.05, 0.8/q)
cheby1(n, q) == [design |-> "cheby1", args |-> <<n, Quotient(8, q)>>]

\* decimate_coeffs(q, n, ftype) (n = 0 stands for None): the caches it leaves
\* and what it returns or raises; designed tells whether scipy returns a
\* design or raises for these arguments
decimate_coeffs(fir, iir, q, n, ftype, designed) ==
    LET order == OrderOf(n, ftype)
        raise(e) == [fir |-> fir, iir |-> iir, ret |-> Exception(e)]
    IN IF ~q.isint THEN raise("Error")
       ELSE IF q.val = 0 THEN raise("ZeroDivisionError")
       ELSE IF ftype = "fir"
       THEN LET key == <<order, Quotient(10, q.val)>>
            IN IF key \notin DOMAIN fir /\ ~designed THEN raise("ValueError")
               ELSE LET coeffs == IfAbsent(fir, key, firwin(order, q.val))
                    IN [fir |-> coeffs, iir |-> iir,
                        ret |-> Value("b, [1.], n", <<coeffs[key], order>>)]
       ELSE LET key == <<order, Quotient(8, q.val)>>
            IN IF key \notin DOMAIN iir /\ ~designed THEN raise("ValueError")
               ELSE LET coeffs == IfAbsent(iir, key, cheby1(order, q.val))
                    IN [fir |-> fir, iir |-> coeffs,
                        ret |-> Value("b, a, n", <<coeffs[key], order>>)]

\* decimate(x, q, n, ftype, zi, ioff) for a signal x: the caches it leaves and
\* what it returns (the signal filtered with the coefficients, with the
\* filter state when zi is given) or raises
decimate(fir, iir, q, n, ftype, zi, designed) ==
    LET c == decimate_coeffs(fir, iir, q, n, ftype, designed)
    IN IF c.ret.kind \notin {"b, [1.], n", "b, a, n"} THEN c
       ELSE [fir |-> c.fir, iir |-> c.iir,
             ret |-> Value(IF zi THEN "y, zf" ELSE "y", c.ret.val)]

\* re.I: letters match in either case
Fold(c) == IF c = "g" THEN "G" ELSE c

RECURSIVE fnmatch(_, _)
\* re.compile(fnmatch.translate(pattern), re.I).match(s), for patterns of
\* '*', '?' and other characters
fnmatch(pattern, s) ==
    IF pattern = <<>> THEN s = <<>>
    ELSE IF pattern[1] = "*"
    THEN fnmatch(Tail(pattern), s) \/ (s # <<>> /\ fnmatch(pattern, Tail(s)))
    ELSE IF s = <<>> THEN FALSE
    ELSE /\ pattern[1] = "?" \/ Fold(pattern[1]) = Fold(s[1])
         /\ fnmatch(Tail(pattern), Tail(s))

\* the compiled pattern
Compiled(pattern) == [compiled |-> pattern, flags |-> "I"]

\* _nslc_pattern(pattern): the cache it leaves (it returns cache[pattern])
nslc_pattern(cache, pattern) == IfAbsent(cache, pattern, Compiled(pattern))

RECURSIVE join(_)
\* '.'.join(nslc)
join(nslc) ==
    IF nslc = <<>> THEN <<>>
    ELSE IF Len(nslc) = 1 THEN nslc[1]
    ELSE nslc[1] \o <<".">> \o join(Tail(nslc))

RECURSIVE MatchLoop(_, _, _)
\* "for pattern in patterns: if _nslc_pattern(pattern).match(s): return True"
MatchLoop(cache, patterns, s) ==
    IF patterns = <<>> THEN [cache |-> cache, ret |-> Value("bool", FALSE)]
    ELSE LET c == nslc_pattern(cache, patterns[1])
         IN IF fnmatch(c[patterns[1]].compiled, s)
            THEN [cache |-> c, ret |-> Value("bool", TRUE)]
            ELSE MatchLoop(c, Tail(patterns), s)

\* match_nslc(patterns, nslc), patterns a string or a list of strings
match_nslc(cache, patterns, nslc) ==
    MatchLoop(cache, IF patterns.isstr THEN <<patterns.val>> ELSE patterns.val,
              join(nslc))

\* the objects given to reuse: two equal objects and a list
Objects ==
    {Object("GR", id, TRUE) : id \in {1, 2}} \cup {Object("[]", 1, FALSE)}

\* the q given to decimate_coeffs and decimate
Qs == {Integer(0), Integer(2), Float(2)}
\* the n: None (0) or 4
Ns == {0, 4}

\* the patterns '*.H3.*.?' and 'g.*', and the codes G.H3..Z and G.H4..Z
Patterns == { <<"*", ".", "H", "3", ".", "*", ".", "?">>, <<"g", ".", "*">> }
PatternArgs ==
    {[isstr |-> TRUE, val |-> p] : p \in Patterns}
        \cup {[isstr |-> FALSE, val |-> l] : l \in SeqsUpTo(Patterns, MaxPatterns)}
Nslcs == { << <<"G">>, <<"H", "3">>, <<>>, <<"Z">> >>,
           << <<"G">>, <<"H", "4">>, <<>>, <<"Z">> >> }

\* the ceilings and factors of the calls of mk_decitab and decitab
CacheCeilings == {3}
CacheFactors == {4}

NoCall == [kind |-> "None", val |-> <<>>]

CacheInit ==
    /\ reuse_store = EmptyDict
    /\ decimate_fir_coeffs = EmptyDict
    /\ decimate_iir_coeffs = EmptyDict
    /\ pattern_cache = EmptyDict
    /\ ca_call = NoCall
    /\ ca_ret = NoCall

\* a call reuse(x)
Reuse(x) ==
    LET r == reuse(reuse_store, x)
    IN /\ reuse_store' = r.store
       /\ ca_call' = Value("reuse", x)
       /\ ca_ret' = r.ret
       /\ UNCHANGED <<decimate_fir_coeffs, decimate_iir_coeffs, pattern_cache>>
       /\ UNCHANGED notCache

\* a call decimate_coeffs(q, n, ftype)
DecimateCoeffs(q, n, ftype, designed) ==
    LET r == decimate_coeffs(decimate_fir_coeffs, decimate_iir_coeffs,
                             q, n, ftype, designed)
    IN /\ decimate_fir_coeffs' = r.fir
       /\ decimate_iir_coeffs' = r.iir
       /\ ca_call' = Value("decimate_coeffs", q)
       /\ ca_ret' = r.ret
       /\ UNCHANGED <<reuse_store, pattern_cache>>
       /\ UNCHANGED notCache

\* a call decimate(x, q, n, ftype, zi)
Decimate(q, n, ftype, zi, designed) ==
    LET r == decimate(decimate_fir_coeffs, decimate_iir_coeffs,
                      q, n, ftype, zi, designed)
    IN /\ decimate_fir_coeffs' = r.fir
       /\ decimate_iir_coeffs' = r.iir
       /\ ca_call' = Value("decimate", q)
       /\ ca_ret' = r.ret
       /\ UNCHANGED <<reuse_store, pattern_cache>>
       /\ UNCHANGED notCache

\* a call match_nslc(patterns, nslc)
MatchNslc(patterns, nslc) ==
    LET r == match_nslc(pattern_cache, patterns, nslc)
    IN /\ pattern_cache' = r.cache
       /\ ca_call' = Value("match_nslc", patterns)
       /\ ca_ret' = r.ret
       /\ UNCHANGED <<reuse_store, decimate_fir_coeffs, decimate_iir_coeffs>>
       /\ UNCHANGED notCache

CacheNext ==
    \/ \E x \in Objects : Reuse(x)
    \/ \E q \in Qs, n \in Ns, ftype \in {"fir", "iir"}, designed \in BOOLEAN :
          DecimateCoeffs(q, n, ftype, designed)
    \/ \E q \in Qs, n \in Ns, ftype \in {"fir", "iir"}, zi \in BOOLEAN,
          designed \in BOOLEAN :
          Decimate(q, n, ftype, zi, designed)
    \/ \E nmax \in CacheCeilings : MkDecitab(nmax)
    \/ \E n \in CacheFactors : Decitab(n)
    \/ \E patterns \in PatternArgs, nslc \in Nslcs : MatchNslc(patterns, nslc)

(***************************************************************************)
(* ensuredir and ensuredirs.  The path dst has MaxDepth components; the    *)
(* directory made of its first k components is named k, dst itself is      *)
(* MaxDepth and 0 is the empty string that os.path.split ends with.  Every *)
(* call of os.path.exists and of os.mkdir is a step of its caller.         *)
(***************************************************************************)

\* the number of components of dst
MaxDepth == 3

Callers == {"this caller", "other caller"}

\* os.path.split(d)[0]
SplitHead(d) == d - 1

NoError == [errno |-> "None", path |-> 0]

\* os.mkdir(d): the directories after it and the OSError it raises
mkdir(exists, d) ==
    IF d \in exists THEN [exists |-> exists, exc |-> [errno |-> "EEXIST", path |-> d]]
    ELSE IF d > 1 /\ SplitHead(d) \notin exists
    THEN [exists |-> exists, exc |-> [errno |-> "ENOENT", path |-> d]]
    ELSE [exists |-> exists \cup {d}, exc |-> NoError]

EnsureInit ==
    /\ ed_exists = {}
    /\ ed_pc = [c \in Callers |-> "not called"]
    /\ ed_d = [c \in Callers |-> 0]
    /\ ed_dirs = [c \in Callers |-> <<>>]
    /\ ed_exc = [c \in Callers |-> NoError]

EnsureStart ==
    /\ \E k \in 0 .. MaxDepth : ed_exists = 1 .. k
    /\ ed_pc = [c \in Callers |-> "ensuredir"]
    /\ ed_d = [c \in Callers |-> 0]
    /\ ed_dirs = [c \in Callers |-> <<>>]
    /\ ed_exc = [c \in Callers |-> NoError]

\* ensuredir, "if os.path.exists(dst): return"; otherwise ensuredirs(dst)
\* begins with "d,x = os.path.split(dst)"
EnsuredirExists(c) ==
    /\ ed_pc[c] = "ensuredir"
    /\ IF MaxDepth \in ed_exists
       THEN /\ ed_pc' = [ed_pc EXCEPT ![c] = "returned"]
            /\ UNCHANGED ed_d
       ELSE /\ ed_pc' = [ed_pc EXCEPT ![c] = "while"]
            /\ ed_d' = [ed_d EXCEPT ![c] = SplitHead(MaxDepth)]
    /\ UNCHANGED <<ed_exists, ed_dirs, ed_exc>>
    /\ UNCHANGED notEnsure

\* ensuredirs, "while d and not os.path.exists(d): dirs.append(d); d,x =
\* os.path.split(d)", and "dirs.reverse()" when the loop is left
EnsuredirsWhile(c) ==
    /\ ed_pc[c] = "while"
    /\ IF ed_d[c] # 0 /\ ed_d[c] \notin ed_exists
       THEN /\ ed_dirs' = [ed_dirs EXCEPT ![c] = <<ed_d[c]>> \o @]
            /\ ed_d' = [ed_d EXCEPT ![c] = SplitHead(@)]
            /\ UNCHANGED ed_pc
       ELSE /\ ed_pc' = [ed_pc EXCEPT ![c] = "for"]
            /\ UNCHANGED <<ed_d, ed_dirs>>
    /\ UNCHANGED <<ed_exists, ed_exc>>
    /\ UNCHANGED notEnsure

\* ensuredirs, "for d in dirs: if not os.path.exists(d):"; after the last d
\* ensuredirs returns
EnsuredirsFor(c) ==
    /\ ed_pc[c] = "for"
    /\ IF ed_dirs[c] = <<>>
       THEN /\ ed_pc' = [ed_pc EXCEPT ![c] = "final mkdir"]
            /\ UNCHANGED <<ed_d, ed_dirs>>
       ELSE /\ ed_d' = [ed_d EXCEPT ![c] = Head(ed_dirs[c])]
            /\ ed_dirs' = [ed_dirs EXCEPT ![c] = Tail(@)]
            /\ ed_pc' = [ed_pc EXCEPT ![c] =
                            IF Head(ed_dirs[c]) \in ed_exists THEN "for" ELSE "mkdir"]
    /\ UNCHANGED <<ed_exists, ed_exc>>
    /\ UNCHANGED notEnsure

\* ensuredirs, "os.mkdir(d)"
EnsuredirsMkdir(c) ==
    /\ ed_pc[c] = "mkdir"
    /\ LET m == mkdir(ed_exists, ed_d[c])
       IN /\ ed_exists' = m.exists
          /\ ed_exc' = [ed_exc EXCEPT ![c] = m.exc]
          /\ ed_pc' = [ed_pc EXCEPT ![c] = IF m.exc = NoError THEN "for" ELSE "raised"]
    /\ UNCHANGED <<ed_d, ed_dirs>>
    /\ UNCHANGED notEnsure

\* ensuredir, "os.mkdir(dst)"
EnsuredirMkdir(c) ==
    /\ ed_pc[c] = "final mkdir"
    /\ LET m == mkdir(ed_exists, MaxDepth)
       IN /\ ed_exists' = m.exists
          /\ ed_exc' = [ed_exc EXCEPT ![c] = m.exc]
          /\ ed_pc' = [ed_pc EXCEPT ![c] =
                          IF m.exc = NoError THEN "returned" ELSE "raised"]
    /\ UNCHANGED <<ed_d, ed_dirs>>
    /\ UNCHANGED notEnsure

EnsureNext ==
    \E c \in Callers :
        \/ EnsuredirExists(c)
        \/ EnsuredirsWhile(c)
        \/ EnsuredirsFor(c)
        \/ EnsuredirsMkdir(c)
        \/ EnsuredirMkdir(c)

(***************************************************************************)
(* time_to_str called on its own                                           *)
(***************************************************************************)

\* fractions of a second, as written
RenderFractions ==
    GoodFractions \cup {<<".", "0", "5">>, <<".", "2", "5">>, <<".", "9", "5">>,
                        <<".", "9", "9", "5">>, <<".", "9", "9", "9", "5">>}

\* the doubles nearest to the calendar times with these fractions
RenderTimes ==
    {str_to_time(Written(c, " ", TRUE) \o f, Base(" ") \o fixed_endings[1]).t :
        c \in CalendarTimes, f \in RenderFractions}

RenderInit ==
    /\ rn_t = NoTime
    /\ rn_format = NoStr
    /\ rn_str = NoStr

RenderStart ==
    /\ rn_t \in RenderTimes
    /\ rn_format \in Formats
    /\ rn_str = NoStr

\* the call time_to_str(rn_t, rn_format)
Render ==
    /\ rn_str = NoStr
    /\ rn_str' = time_to_str(rn_t, rn_format)
    /\ UNCHANGED <<rn_t, rn_format>>
    /\ UNCHANGED notRender

RenderNext == Render

(***************************************************************************)
(* The specifications: one component runs, the others stay as imported     *)
(***************************************************************************)

\* every component as it is when the modules have been imported
Imported == SoleInit /\ DeciInit /\ LeapInit /\ StationInit /\ TimeInit
    /\ MergeInit /\ LoadInit /\ IterInit /\ Base36Init /\ UnpackInit
    /\ CacheInit /\ EnsureInit /\ RenderInit

SoleSpec == Imported /\ [][SoleNext]_vars
DeciSpec == Imported /\ [][DeciNext]_vars
Deci100Spec == Imported /\ [][Deci100Next]_vars

\* read_leap_seconds2 is called once, on any list file and server
LeapCalled == SoleInit /\ DeciInit /\ LeapStart /\ StationInit /\ TimeInit
    /\ MergeInit /\ LoadInit /\ IterInit /\ Base36Init /\ UnpackInit
    /\ CacheInit /\ EnsureInit /\ RenderInit
LeapSpec == LeapCalled /\ [][LeapNext]_vars
\* the same call, which goes on as long as it has a step to take
LeapFairSpec == LeapCalled /\ [][LeapNext]_vars /\ WF_vars(LeapNext)

\* make_stationxml is called once, on any short sequence of records
StationCalled == SoleInit /\ DeciInit /\ LeapInit /\ StationStart /\ TimeInit
    /\ MergeInit /\ LoadInit /\ IterInit /\ Base36Init /\ UnpackInit
    /\ CacheInit /\ EnsureInit /\ RenderInit
StationSpec == StationCalled /\ [][StationNext]_vars

\* a caller holds any of the time strings and formats
TimeCalled == SoleInit /\ DeciInit /\ LeapInit /\ StationInit /\ TimeStart
    /\ MergeInit /\ LoadInit /\ IterInit /\ Base36Init /\ UnpackInit
    /\ CacheInit /\ EnsureInit /\ RenderInit
TimeSpec == TimeCalled /\ [][TimeNext]_vars

\* consistency_merge is called once, on any short list of tuples
MergeCalled == SoleInit /\ DeciInit /\ LeapInit /\ StationInit /\ TimeInit
    /\ MergeStart /\ LoadInit /\ IterInit /\ Base36Init /\ UnpackInit
    /\ CacheInit /\ EnsureInit /\ RenderInit
MergeSpec == MergeCalled /\ [][MergeNext]_vars

\* iload is called once, on a source of any shape, and iterated to its end
LoadCalled == SoleInit /\ DeciInit /\ LeapInit /\ StationInit /\ TimeInit
    /\ MergeInit /\ LoadStart /\ IterInit /\ Base36Init /\ UnpackInit
    /\ CacheInit /\ EnsureInit /\ RenderInit
LoadSpec == LoadCalled /\ [][LoadNext]_vars

\* one of the generators is called on a time span and iterated to its end
IterCalled == SoleInit /\ DeciInit /\ LeapInit /\ StationInit /\ TimeInit
    /\ MergeInit /\ LoadInit /\ IterStart /\ Base36Init /\ UnpackInit
    /\ CacheInit /\ EnsureInit /\ RenderInit
IterSpec == IterCalled /\ [][IterNext]_vars

\* a caller holds an integer
Base36Called == SoleInit /\ DeciInit /\ LeapInit /\ StationInit /\ TimeInit
    /\ MergeInit /\ LoadInit /\ IterInit /\ Base36Start /\ UnpackInit
    /\ CacheInit /\ EnsureInit /\ RenderInit
Base36Spec == Base36Called /\ [][Base36Next]_vars

\* unpack_fixed is called once, on any short format and line
UnpackCalled == SoleInit /\ DeciInit /\ LeapInit /\ StationInit /\ TimeInit
    /\ MergeInit /\ LoadInit /\ IterInit /\ Base36Init /\ UnpackStart
    /\ CacheInit /\ EnsureInit /\ RenderInit
UnpackSpec == UnpackCalled /\ [][UnpackNext]_vars

\* any calls that use the caches of the process, from the import on
CacheSpec == Imported /\ [][CacheNext]_vars

\* two callers call ensuredir(dst), of which any leading part may exist
EnsureCalled == SoleInit /\ DeciInit /\ LeapInit /\ StationInit /\ TimeInit
    /\ MergeInit /\ LoadInit /\ IterInit /\ Base36Init /\ UnpackInit
    /\ CacheInit /\ EnsureStart /\ RenderInit
EnsureSpec == EnsureCalled /\ [][EnsureNext]_vars

\* time_to_str is called once, on a time with a fraction and a format
RenderCalled == SoleInit /\ DeciInit /\ LeapInit /\ StationInit /\ TimeInit
    /\ MergeInit /\ LoadInit /\ IterInit /\ Base36Init /\ UnpackInit
    /\ CacheInit /\ EnsureInit /\ RenderStart
RenderSpec == RenderCalled /\ [][RenderNext]_vars

(***************************************************************************)
(* Claims about Sole                                                       *)
(***************************************************************************)

\* The object was constructed without an error and __del__ has not begun.
Alive(o) == pc[o] = "held"

SameProcess(o1, o2) == o1 # o2 /\ owner[o1] = owner[o2]

\* C1: at most one process at a time has a Sole on the path that was
\* constructed successfully and is not yet destroyed.  Stated for the runs
\* the claim lists, those in which every os.open succeeded (so that only the
\* steps open, lockf, truncate/write, unlock, close and unlink interleave).
C1_OneHolderPerPath ==
    (\A o \in Objs : pc[o] \notin {"noopen", "dropped"})
    => \A o1, o2 \in Objs : (Alive(o1) /\ Alive(o2)) => owner[o1] = owner[o2]

\* C2 as stated: within one process, the lock step of a second Sole raises
\* SoleError while another Sole of that process on the path is alive.
C2_SecondInProcessRaises ==
    [][\A o \in Objs :
          (/\ pc[o] = "opened"
           /\ pc'[o] # "opened"
           /\ \E o2 \in Objs : SameProcess(o, o2) /\ Alive(o2))
          => pc'[o] = "failed"]_vars

\* C2 as amended: the lock step of a construction either takes the lock or
\* raises SoleError, and it raises only when a Sole of ANOTHER process has
\* locked the same file and not yet released it; an alive Sole of the same
\* process never makes it raise (and so a construction after the first Sole
\* was destroyed succeeds too, unless another process holds the lock).
C2_SoleErrorOnlyAcrossProcesses ==
    [][\A o \in Objs :
          (pc[o] = "opened" /\ pc'[o] # "opened")
          => /\ pc'[o] \in {"locked", "failed"}
             /\ pc'[o] = "failed" =>
                   \E o2 \in Objs : /\ owner[o2] # owner[o]
                                    /\ lockfile[o2] = lockfile[o]
                                    /\ pc[o2] \in {"locked", "held"}]_vars

\* C2's case: two Soles of one process alive on the same file at once.
C2_TwoAliveInOneProcess ==
    \E o1, o2 \in Objs : /\ SameProcess(o1, o2)
                         /\ Alive(o1) /\ Alive(o2)
                         /\ lockfile[o1] = lockfile[o2]

\* a step of o that is the failure of its lockf, with the SoleError, or the
\* __del__ of o after that failure
FailureStep(o) ==
    \/ pc[o] = "opened" /\ pc'[o] = "failed"
    \/ pc[o] = "failed" /\ pc'[o] = "leaked"

\* C25: a construction that fails because another process holds the lock,
\* and the destruction of the object it leaves, change nothing for the
\* holder: what the lock file holds, the lock on it and the path stay as they
\* were, so that the holder holds the lock as before and the lockf of any
\* object of a third process on the file is refused as before.
C25_FailureLeavesHolder ==
    [][\A o \in Objs :
          FailureStep(o) =>
              /\ content' = content
              /\ lockOwner' = lockOwner
              /\ pathIno' = pathIno
              /\ \A o3 \in Objs :
                     (/\ lockfile[o3] = lockfile[o]
                      /\ lockOwner[lockfile[o]] \notin {NoProc, owner[o3]})
                         => /\ lockfile'[o3] = lockfile[o3]
                            /\ lockOwner'[lockfile'[o3]]
                                   \notin {NoProc, owner[o3]}]_vars

\* C25's case: p1 holds the lock and its pid is in the file, the object of
\* p2 has failed and has been destroyed, and after that the object of p3 has
\* failed on the same file.
C25_ThirdFailsAfterSecond ==
    /\ pc["a1"] = "held"
    /\ lockOwner[lockfile["a1"]] = "p1"
    /\ content[lockfile["a1"]] = "p1"
    /\ pathIno = lockfile["a1"]
    /\ pc["b"] = "leaked" /\ lockfile["b"] = lockfile["a1"]
    /\ pc["c"] = "failed" /\ lockfile["c"] = lockfile["a1"]

(***************************************************************************)
(* Claims about the decimation table                                       *)
(***************************************************************************)

\* the numbers that are a product of five factors, each in 1..9
Factors == 1 .. (RangeStop - 1)
Products5 == {i * j * k * l * m : i \in Factors, j \in Factors, k \in Factors,
                                  l \in Factors, m \in Factors}

Returned(name) == deci_call.name = name

GoodTuple(q, n) ==
    /\ Len(q) = 5
    /\ 9 >= q[1] /\ q[1] >= q[2] /\ q[2] >= q[3] /\ q[3] >= q[4]
    /\ q[4] >= q[5] /\ q[5] >= 1
    /\ q[1] * q[2] * q[3] * q[4] * q[5] = n

\* C4: after any calls, decitab(n) returns a non-increasing 5-tuple of factors
\* in 1..9 whose product is n, or raises UnavailableDecimation, and it raises
\* exactly when n is no product of five factors in 1..9.
C4_DecitabTupleOrUnavailable ==
    Returned("decitab") =>
        /\ deci_ret.kind \in {"tuple", "UnavailableDecimation"}
        /\ deci_ret.kind = "tuple" => GoodTuple(deci_ret.val, deci_call.arg)
        /\ deci_ret.kind = "UnavailableDecimation" <=> deci_call.arg \notin Products5

\* C4's case: decitab answers from a table that an earlier call built with a
\* larger ceiling than the current one.
C4_AnswerAfterEarlierBuilds ==
    /\ Returned("decitab")
    /\ deci_ret.kind = "tuple"
    /\ deci_call.arg = 12
    /\ \E p \in DOMAIN decitab_tab : p > decitab_nmax

\* C5 as stated: for every n in 1..100, decitab(n) returns a 5-tuple whose
\* product is n.
C5_EveryFactorTo100 ==
    (Returned("decitab") /\ deci_call.arg \in 1 .. TestedFactors) =>
        /\ deci_ret.kind = "tuple"
        /\ GoodTuple(deci_ret.val, deci_call.arg)

\* C5 as amended: for every n in 1..100 that is a product of five factors in
\* 1..9, decitab(n) returns a 5-tuple whose product is n; for every other n
\* in 1..100 (11, 13, 17, 19, 22, ...) it raises UnavailableDecimation.
C5_EveryProductTo100 ==
    (Returned("decitab") /\ deci_call.arg \in 1 .. TestedFactors) =>
        IF deci_call.arg \in Products5
        THEN deci_ret.kind = "tuple" /\ GoodTuple(deci_ret.val, deci_call.arg)
        ELSE deci_ret.kind = "UnavailableDecimation"

\* C5's case: decitab(100) has returned a tuple.
C5_Decitab100Returned ==
    /\ Returned("decitab")
    /\ deci_call.arg = 100
    /\ deci_ret.kind = "tuple"

\* the quintuples with i >= j >= k >= l >= m, all in 1..9
Quintuples ==
    UNION {UNION {UNION {UNION {
        {<<i, j, k, l, m>> : m \in 1 .. l}
        : l \in 1 .. k} : k \in 1 .. j} : j \in 1 .. i} : i \in Factors}

\* q is met before r by an enumeration that tries i first, then j, ..., and
\* larger values first
LargerFirst(q, r) ==
    \E n \in 1 .. 5 : q[n] > r[n] /\ \A x \in 1 .. (n - 1) : q[x] = r[x]

\* q is met before r by an enumeration that tries i first, then j, ..., and
\* smaller values first
SmallerFirst(q, r) ==
    \E n \in 1 .. 5 : q[n] < r[n] /\ \A x \in 1 .. (n - 1) : q[x] = r[x]

\* the quintuples with product n
QuintuplesByProduct ==
    [n \in 1 .. (TopCeiling \div 2) |->
        {q \in Quintuples : q[1] * q[2] * q[3] * q[4] * q[5] = n}]
WithProduct(n) == QuintuplesByProduct[n]

\* C20 as stated: the tuple decitab(n) returns is the first quintuple with
\* product n met by an exhaustive enumeration over i,j,k,l,m in 1..9 with
\* i >= j >= k >= l >= m that tries larger values first.
C20_FirstOfDescending ==
    (Returned("decitab") /\ deci_ret.kind = "tuple") =>
        /\ deci_ret.val \in WithProduct(deci_call.arg)
        /\ \A r \in WithProduct(deci_call.arg) :
               r = deci_ret.val \/ LargerFirst(deci_ret.val, r)

\* C20 as amended: the tuple decitab(n) returns is the first quintuple with
\* product n met by an exhaustive enumeration over i,j,k,l,m in 1..9 with
\* i >= j >= k >= l >= m that tries smaller values first (i outermost),
\* whatever calls of mk_decitab and decitab came before.
C20_FirstOfAscending ==
    (Returned("decitab") /\ deci_ret.kind = "tuple") =>
        /\ deci_ret.val \in WithProduct(deci_call.arg)
        /\ \A r \in WithProduct(deci_call.arg) :
               r = deci_ret.val \/ SmallerFirst(deci_ret.val, r)

\* C20's case: decitab(4) has returned (2,2,1,1,1), where counting down
\* would meet (4,1,1,1,1) first.
C20_SmallFactorsFor4 ==
    /\ Returned("decitab")
    /\ deci_call.arg = 4
    /\ deci_ret.kind = "tuple"
    /\ deci_ret.val = <<2, 2, 1, 1, 1>>
    /\ LargerFirst(<<4, 1, 1, 1, 1>>, deci_ret.val)

\* what decitab(n) returns or raises as the first call after the import
FirstCallOutcome ==
    [n \in 1 .. (TopCeiling \div 2) |->
        LET tab == mk_decitab(EmptyTab, n * 2)
        IN IF n \notin DOMAIN tab
           THEN [kind |-> "UnavailableDecimation", val |-> <<>>]
           ELSE [kind |-> "tuple", val |-> tab[n]]]

\* C22: whatever calls of mk_decitab and decitab came before, with whatever
\* ceilings and regenerations, decitab(n) returns the tuple or raises the
\* UnavailableDecimation that it does as the first call of the process, so
\* that its outcome is the same after any two histories.
C22_HistoryIndependent ==
    Returned("decitab") => deci_ret = FirstCallOutcome[deci_call.arg]

\* C22's case: decitab(6) has answered from a table that an earlier call
\* built up to another ceiling than the 12 of its own regeneration, and that
\* holds entries from a build with a larger ceiling still.
C22_AnsweredFromEarlierTable ==
    /\ Returned("decitab")
    /\ deci_call.arg = 6
    /\ deci_ret.kind = "tuple"
    /\ decitab_nmax > 6 /\ decitab_nmax < 12
    /\ \E p \in DOMAIN decitab_tab : p > 12

(***************************************************************************)
(* Claims about the leap-second list                                       *)
(***************************************************************************)

\* C9: when the first parse reports LeapSecondsOutdated and the download then
\* fails with an exception, read_leap_seconds2 fails with LeapSecondsError.
C9_DownloadFailureIsLeapSecondsError ==
    (ls_pc = "done" /\ ls_exc # "none") => ls_result = "LeapSecondsError"

\* C16: whatever step of download_file succeeds or fails, the destination
\* never holds part of a list: it changes only in the rename, to the
\* complete list of the server, and a download that fails leaves it as it
\* was.
C16_DestinationAtomic ==
    /\ [](ls_file.exists => ls_file.list.chunks = ls_file.list.full)
    /\ [][ /\ ls_file' # ls_file
                => /\ ls_file' = FileOf(ls_remote)
                   /\ ls_pc = "dl rename"
           /\ ls_pc' = "download failed" => ls_file' = ls_file ]_vars

\* half of the server's list is in the temporary file while the destination
\* holds the earlier list
C16_HalfWayWithOldList ==
    /\ ls_pc = "dl copy"
    /\ ls_remote.full = 2
    /\ ls_tmp.exists /\ ls_tmp.list.chunks = 1
    /\ ls_file.exists /\ ls_file.list.of = "old"

\* C19: one call of read_leap_seconds2 starts at most one download, and only
\* after the first parse has reported LeapSecondsOutdated; after a download
\* that succeeded the list is parsed once more and what that parse returns or
\* raises is what the call returns or raises, LeapSecondsOutdated included;
\* the call ends.
C19_OneDownload ==
    /\ [](ls_downloads <= 1 /\ ls_parses <= 2)
    /\ [][ls_downloads' # ls_downloads
             => /\ ls_downloads = 0
                /\ ls_parses = 1
                /\ parse_leap_seconds_list(ls_file) = "LeapSecondsOutdated"]_vars
    /\ []((ls_pc = "done" /\ ls_downloads = 1 /\ ls_exc = "none")
             => /\ ls_parses = 2
                /\ ls_result = parse_leap_seconds_list(ls_file))
    /\ []((ls_pc = "done" /\ ls_downloads = 0) => ls_parses = 1)
    /\ <>(ls_pc = "done")

\* the list downloaded has expired as well: the second parse has raised
\* LeapSecondsOutdated and the call has ended
C19_OutdatedAgain ==
    /\ ls_pc = "done"
    /\ ls_downloads = 1
    /\ ls_parses = 2
    /\ ls_exc = "none"
    /\ ls_result = "LeapSecondsOutdated"

(***************************************************************************)
(* Claims about make_stationxml                                            *)
(***************************************************************************)

Returned_sx == sx_doc.kind = "FDSNStationXML"

RecordsOf(net, sta) ==
    {n \in 1 .. Len(sx_responses) :
        sx_responses[n].net = net /\ sx_responses[n].sta = sta}

\* the channel list holds one Channel per record of the group: every
\* (location, channel, placement) as often as the group's records have it
OnePerRecord(channel_list, net, sta) ==
    /\ Len(channel_list) = Cardinality(RecordsOf(net, sta))
    /\ \A n \in RecordsOf(net, sta) :
          LET c == [code |-> sx_responses[n].cha,
                    location_code |-> sx_responses[n].loc,
                    latitude |-> sx_responses[n].lat,
                    longitude |-> sx_responses[n].lon,
                    elevation |-> sx_responses[n].elevation]
          IN Cardinality({x \in 1 .. Len(channel_list) : channel_list[x] = c})
             = Cardinality({x \in RecordsOf(net, sta) :
                               /\ sx_responses[x].cha = c.code
                               /\ sx_responses[x].loc = c.location_code
                               /\ sx_responses[x].lat = c.latitude})

SortedByLocationThenCode(channel_list) ==
    \A a, b \in 1 .. Len(channel_list) :
        a < b => \/ channel_list[a].location_code < channel_list[b].location_code
                 \/ /\ channel_list[a].location_code = channel_list[b].location_code
                    /\ channel_list[a].code <= channel_list[b].code

RECURSIVE SumOfLens(_)
SumOfLens(q) == IF q = <<>> THEN 0 ELSE Len(q[1]) + SumOfLens(Tail(q))

ChannelListsOf(nw) ==
    [n \in 1 .. Len(nw.station_list) |-> nw.station_list[n].channel_list]

RECURSIVE TotalChannels(_)
TotalChannels(nl) ==
    IF nl = <<>> THEN 0
    ELSE SumOfLens(ChannelListsOf(nl[1])) + TotalChannels(Tail(nl))

\* C10: the document has one Network per network code of the records, in the
\* order of the codes; in it one Station per (network, station) of the
\* records; in it one Channel per record of that pair, sorted by (location
\* code, channel code); so there are as many Channels as records.
C10_Grouping ==
    Returned_sx =>
      LET nl == sx_doc.network_list
      IN /\ {nl[n].code : n \in 1 .. Len(nl)}
              = {sx_responses[n].net : n \in 1 .. Len(sx_responses)}
         /\ \A a, b \in 1 .. Len(nl) : a < b => nl[a].code < nl[b].code
         /\ \A n \in 1 .. Len(nl) :
              LET sl == nl[n].station_list
              IN /\ {sl[x].code : x \in 1 .. Len(sl)}
                      = {sx_responses[x].sta : x \in
                           {y \in 1 .. Len(sx_responses) :
                               sx_responses[y].net = nl[n].code}}
                 /\ \A x, y \in 1 .. Len(sl) : x # y => sl[x].code # sl[y].code
                 /\ \A x \in 1 .. Len(sl) :
                      /\ OnePerRecord(sl[x].channel_list, nl[n].code, sl[x].code)
                      /\ SortedByLocationThenCode(sl[x].channel_list)
         /\ TotalChannels(nl) = Len(sx_responses)

\* C10's case: a document made from two records of one station that came in
\* the order opposite to (location code, channel code).
C10_TwoChannelsOutOfOrder ==
    /\ Returned_sx
    /\ Len(sx_responses) >= 2
    /\ IsOf(sx_responses[2], <<sx_responses[1].net, sx_responses[1].sta>>)
    /\ PairLess(<<sx_responses[2].loc, sx_responses[2].cha>>,
                <<sx_responses[1].loc, sx_responses[1].cha>>)
    /\ sx_responses[2].loc # sx_responses[1].loc
    /\ sx_responses[2].cha # sx_responses[1].cha

\* the station codes of network net in the order in which the records first
\* name them
RECURSIVE FirstSeen(_, _)
FirstSeen(responses, net) ==
    IF responses = <<>> THEN <<>>
    ELSE LET before == FirstSeen(SubSeq(responses, 1, Len(responses) - 1), net)
             last == responses[Len(responses)]
         IN IF last.net = net /\ last.sta \notin Range(before)
            THEN Append(before, last.sta) ELSE before

StationCodes(nw) == [x \in 1 .. Len(nw.station_list) |-> nw.station_list[x].code]

Ascending(q) == \A x, y \in 1 .. Len(q) : x < y => q[x] < q[y]

\* C11 as stated: the stations inside each Network of the document are in the
\* order in which their (network, station) pair first occurs in the records.
C11_FirstSeenOrder ==
    Returned_sx =>
        \A n \in 1 .. Len(sx_doc.network_list) :
            StationCodes(sx_doc.network_list[n])
                = FirstSeen(sx_responses, sx_doc.network_list[n].code)

\* C11, amended: the stations inside each Network are the first-seen
\* stations of that network rearranged in ascending order of station code;
\* they are in first-seen order exactly when the stations first occur in
\* ascending order.
C11_FirstSeenRearranged ==
    Returned_sx =>
        \A n \in 1 .. Len(sx_doc.network_list) :
            LET codes == StationCodes(sx_doc.network_list[n])
                seen == FirstSeen(sx_responses, sx_doc.network_list[n].code)
            IN /\ Range(codes) = Range(seen)
               /\ Len(codes) = Len(seen)
               /\ Ascending(codes)
               /\ codes = seen <=> Ascending(seen)

\* a document whose stations are not in first-seen order
C11_NotFirstSeen ==
    /\ Returned_sx
    /\ \E n \in 1 .. Len(sx_doc.network_list) :
          StationCodes(sx_doc.network_list[n])
              # FirstSeen(sx_responses, sx_doc.network_list[n].code)

\* C12: the Station elements inside each Network of the document are in
\* ascending order of station code, whatever the order of the records.
C12_StationsSorted ==
    Returned_sx =>
        \A n \in 1 .. Len(sx_doc.network_list) :
            LET sl == sx_doc.network_list[n].station_list
            IN \A x \in 1 .. (Len(sl) - 1) : sl[x].code < sl[x + 1].code

\* a document made from two records of one network, the station with the
\* greater code first
C12_GreaterStationFirst ==
    /\ Returned_sx
    /\ Len(sx_responses) >= 2
    /\ sx_responses[1].net = sx_responses[2].net
    /\ sx_responses[1].sta > sx_responses[2].sta
    /\ Len(sx_doc.network_list[1].station_list) = 2

(***************************************************************************)
(* Claims about time strings                                               *)
(***************************************************************************)

HasDot(s) == \E n \in 1 .. Len(s) : s[n] = "."

\* the number of characters after the last '.' of s
AfterLastDot(s) ==
    Len(s) - (CHOOSE n \in 1 .. Len(s) :
                  s[n] = "." /\ \A y \in (n + 1) .. Len(s) : s[y] # ".")

DotNFrac(n) == <<".", CharOf(n)>> \o FRAC
DotFrac == <<".">> \o FRAC

\* s is date and time c written zero-padded for the base of the format,
\* followed by the fraction f
IsWritten(s, format, c, f) ==
    \E sep \in Seps : EndsWith(format, Base(sep) \o From(format, 17))
                      /\ s = Written(c, sep, TRUE) \o f

\* s is well-formed for the format: an existing date and time, zero-padded,
\* with a fraction of digits where the format ends in '.FRAC', of n digits
\* where it ends in '.nFRAC', and with or without one where it ends in
\* '.OPTFRAC'
WellFormed(s, format) ==
    \E c \in CalendarTimes, f \in GoodFractions \cup {<<>>} :
        /\ IsWritten(s, format, c, f)
        /\ \/ EndsWith(format, DotFrac) /\ f # <<>>
           \/ \E n \in 1 .. 3 : EndsWith(format, DotNFrac(n)) /\ Len(f) = n + 1
           \/ EndsWith(format, OPTFRAC)

\* the same, for the formats ending in '.nFRAC' only
WellFormedCounted(s, format) ==
    /\ WellFormed(s, format)
    /\ \E n \in 1 .. 3 : EndsWith(format, DotNFrac(n))

\* C3: for an 'end' value that is a well-formed YYYY-MM-DDTHH:MM:SS string
\* the record iload_fh produces has tmax equal to str_to_time of that string,
\* and a record has no tmax only when the 'end' value fails to parse and its
\* year is more than 100 years past the current year.
C3_TmaxIsTheEndTime ==
    (tm_pc = "loaded" /\ tm_rec.kind = "EnhancedSacPzResponse") =>
        /\ (\E c \in CalendarTimes : tm_s = Written(c, "T", TRUE))
               => tm_rec.tmax = str_to_time(tm_s, IsoFormat)
        /\ tm_rec.tmax = None
               => /\ str_to_time(tm_s, IsoFormat).kind # "float"
                  /\ NumberOf(UpTo(tm_s, 4)) > this_year + 100

C7_FractionErrors ==
    tm_pc = "parsed" =>
        /\ ( /\ \E n \in 1 .. 4 : EndsWith(tm_format, fixed_endings[n])
             /\ ~HasDot(tm_s) )
               => tm_t.kind = "FractionalSecondsMissing"
        /\ \A n \in 1 .. 3 :
               ( /\ EndsWith(tm_format, DotNFrac(n))
                 /\ HasDot(tm_s)
                 /\ AfterLastDot(tm_s) # n )
                   => tm_t.kind = "FractionalSecondsWrongNumberOfDigits"
        /\ EndsWith(tm_format, DotFrac)
               => /\ tm_t.kind # "FractionalSecondsWrongNumberOfDigits"
                  /\ WellFormed(tm_s, tm_format) => tm_t.kind = "float"

\* two digits have been given where '.1FRAC' asks for one
C7_TwoDigitsForOne ==
    /\ tm_pc = "parsed"
    /\ EndsWith(tm_format, DotNFrac(1))
    /\ HasDot(tm_s) /\ AfterLastDot(tm_s) = 2
    /\ tm_t.kind = "FractionalSecondsWrongNumberOfDigits"

\* C8: whatever the string and the format, a call of str_to_time that fails
\* raises TimeStrError or one of its subclasses, and nothing else.
C8_OnlyTimeStrErrorLeaves ==
    tm_pc = "parsed" => tm_t.kind \in {"float"} \cup TimeStrErrors

(***************************************************************************)
(* Claims about consistency_merge                                          *)
(***************************************************************************)

\* how often value v stands in column k of the tuples
Occurrences(k, v) == Cardinality({n \in 1 .. Len(cm_list) : cm_list[n][k] = v})

\* v is a most frequent value of column k
MostFrequentIn(k, v) ==
    /\ Occurrences(k, v) > 0
    /\ \A n \in 1 .. Len(cm_list) : Occurrences(k, v) >= Occurrences(k, cm_list[n][k])

ValuesAgree == \A n \in 1 .. Len(cm_list) : Tail(cm_list[n]) = Tail(cm_list[1])

\* C13: consistency_merge of an empty list raises a generic error; of tuples
\* whose values are all equal it returns these values under every policy; of
\* tuples that differ it raises Inconsistency under 'raise' and under 'warn'
\* and 'ignore' returns a tuple whose k-th component is a most frequent value
\* of column k, logging under 'warn' and not under 'ignore'.
C13_Merge ==
    cm_error # "None" =>
        /\ Len(cm_list) = 0 => cm_ret.kind = "Exception"
        /\ (Len(cm_list) > 0 /\ ValuesAgree)
               => cm_ret = [kind |-> "tuple", val |-> Tail(cm_list[1])]
        /\ (Len(cm_list) > 0 /\ ~ValuesAgree /\ cm_error = "raise")
               => cm_ret.kind = "Inconsistency"
        /\ (Len(cm_list) > 0 /\ ~ValuesAgree /\ cm_error \in {"warn", "ignore"})
               => /\ cm_ret.kind = "tuple"
                  /\ Len(cm_ret.val) = 3
                  /\ \A k \in 1 .. 3 : MostFrequentIn(k + 1, cm_ret.val[k])
                  /\ cm_logged <=> cm_error = "warn"

\* three tuples, two of them with one latitude and one with another, have
\* been merged under 'warn'
C13_MajorityMerged ==
    /\ cm_error = "warn"
    /\ Len(cm_list) = 3
    /\ cm_list[1][2] # cm_list[2][2]
    /\ cm_list[3][2] = cm_list[2][2]
    /\ cm_ret.kind = "tuple"
    /\ cm_logged

(***************************************************************************)
(* Claims about the loaders                                                *)
(***************************************************************************)

Loaded == ld_out # NotLoaded

\* the first loader called with its argument, if any was
FirstCall == IF ld_out.calls = <<>> THEN <<"None", <<>> >> ELSE ld_out.calls[1]

RECURSIVE Joined(_)
\* the sequences of q one after the other
Joined(q) == IF q = <<>> THEN <<>> ELSE q[1] \o Joined(Tail(q))

\* C14: iload sends a string naming a directory to the directory loader, a
\* string naming a file to the filename loader, any other string to the glob
\* loader and an object with a read method to iload_fh; anything else it
\* iterates, and the records are those of iload of each element, one
\* element after the other.
C14_Dispatch ==
    Loaded =>
        /\ (ld_source.kind = "str" /\ ld_source.path \in Dirs)
               => FirstCall = <<"iload_dirname", ld_source.path>>
        /\ (ld_source.kind = "str" /\ ld_source.path \in DOMAIN FileRecords)
               => /\ FirstCall = <<"iload_filename", ld_source.path>>
                  /\ ld_out.records = FileRecords[ld_source.path]
        /\ (ld_source.kind = "str" /\ ld_source.path \notin Dirs
              /\ ld_source.path \notin DOMAIN FileRecords)
               => FirstCall = <<"iload_glob", ld_source.path>>
        /\ ld_source.kind = "file"
               => /\ ld_out.calls = << <<"iload_fh", <<>> >> >>
                  /\ ld_out.records = ld_source.yields
        /\ ld_source.kind = "list"
               => /\ ld_out.records
                       = Joined([n \in 1 .. Len(ld_source.items) |->
                                    iload(ld_source.items[n]).records])
                  /\ ld_out.calls
                       = Joined([n \in 1 .. Len(ld_source.items) |->
                                    iload(ld_source.items[n]).calls])

\* a collection of a collection and a file name has been loaded
C14_NestedLoaded ==
    /\ Loaded
    /\ ld_source.kind = "list"
    /\ Len(ld_source.items) = 2
    /\ ld_source.items[1].kind = "list"
    /\ Len(ld_source.items[1].items) = 1
    /\ ld_source.items[2] = String(<<"c.pz">>)
    /\ ld_out.records # <<>>

(***************************************************************************)
(* Claims about iter_days, iter_months, iter_years                         *)
(***************************************************************************)

\* the start of the calendar day, month or year the timestamp lies in
UnitFloor(unit, timestamp) ==
    LET c == CivilFromDays(timestamp.days)
    IN CASE unit = "day" -> [days |-> timestamp.days, sod |-> 0]
         [] unit = "month" -> [days |-> DaysFromCivil(c.Y, c.m, 1), sod |-> 0]
         [] unit = "year" -> [days |-> DaysFromCivil(c.Y, 1, 1), sod |-> 0]

\* the start of the calendar day, month or year after the one beginning at
\* start
Following(unit, start) ==
    LET c == CivilFromDays(start.days)
    IN CASE unit = "day" -> [days |-> start.days + 1, sod |-> 0]
         [] unit = "month" ->
                [days |-> IF c.m = 12 THEN DaysFromCivil(c.Y + 1, 1, 1)
                          ELSE DaysFromCivil(c.Y, c.m + 1, 1),
                 sod |-> 0]
         [] unit = "year" -> [days |-> DaysFromCivil(c.Y + 1, 1, 1), sod |-> 0]

\* C15: for tmin < tmax the pairs a generator has yielded when it ends begin
\* with the start of the day, month or year of tmin; every pair ends at the
\* start of the following day, month or year, where the next pair starts;
\* every start is before tmax and the last end is not.
C15_Covering ==
    it_pc = "done" =>
        /\ it_out # <<>>
        /\ it_out[1][1] = UnitFloor(it_unit, it_tmin)
        /\ \A n \in 1 .. Len(it_out) :
              /\ it_out[n][2] = Following(it_unit, it_out[n][1])
              /\ Before(it_out[n][1], it_tmax)
        /\ \A n \in 1 .. (Len(it_out) - 1) : it_out[n][2] = it_out[n + 1][1]
        /\ ~Before(it_out[Len(it_out)][2], it_tmax)

(***************************************************************************)
(* Claims about base36encode and base36decode                              *)
(***************************************************************************)

Base36Digits == {"0", "1", "2", "3", "4", "5", "6", "7", "8", "9",
                 "A", "B", "C", "D", "E", "F", "G", "H", "I", "J", "K", "L", "M",
                 "N", "O", "P", "Q", "R", "S", "T", "U", "V", "W", "X", "Y", "Z"}

\* what the character at place n of the string counts for when the most
\* significant digit stands first: its digit value times the power of 36 of
\* the places behind it
RECURSIVE PlaceValuesFrom(_, _)
PlaceValuesFrom(str, n) ==
    IF n > Len(str) THEN 0
    ELSE (CHOOSE v \in 0 .. 35 : alphabet[v + 1] = str[n]) * Pow(36, Len(str) - n)
         + PlaceValuesFrom(str, n + 1)

\* C17: base36encode of a non-negative integer is a string of the digits
\* 0-9A-Z, most significant digit first, which base36decode turns into the
\* integer again (0 and 35 included); base36encode of a negative integer
\* raises an error.
C17_RoundTrip ==
    /\ (b36_pc \in {"encoded", "decoded"} /\ b36_number < 0)
           => b36_encoded.kind = "ValueError"
    /\ (b36_pc \in {"encoded", "decoded"} /\ b36_number >= 0)
           => /\ b36_encoded.kind = "str"
              /\ Len(b36_encoded.str) >= 1
              /\ \A n \in 1 .. Len(b36_encoded.str) :
                    b36_encoded.str[n] \in Base36Digits
              /\ PlaceValuesFrom(b36_encoded.str, 1) = b36_number
    /\ b36_pc = "decoded"
           => b36_decoded = [kind |-> "int", int |-> b36_number]

\* 36 * 36, encoded as '100', has made the round trip
C17_ThreeDigitsDecoded ==
    /\ b36_pc = "decoded"
    /\ b36_number = 36 * 36
    /\ b36_encoded.str = <<"1", "0", "0">>
    /\ b36_decoded.kind = "int"

(***************************************************************************)
(* Claims about unpack_fixed                                               *)
(***************************************************************************)

RECURSIVE ColumnsBefore(_, _)
\* the widths of the fields before the n-th, added up
ColumnsBefore(format, n) ==
    IF n = 1 THEN 0 ELSE ColumnsBefore(format, n - 1) + format[n - 1].l

\* the characters of the line in the columns of the n-th field
OwnColumns(n) ==
    LET from == ColumnsBefore(up_format, n)
    IN [c \in 1 .. (IF from >= Len(up_line) THEN 0
                    ELSE IF from + up_format[n].l > Len(up_line)
                    THEN Len(up_line) - from ELSE up_format[n].l)
           |-> up_line[from + c]]

Blank(s) == \A c \in 1 .. Len(s) : s[c] = " "

\* the place in the values of the n-th field: that many fields up to it are
\* not 'x'
PlaceOf(n) == Cardinality({j \in 1 .. n : up_format[j].typ # "x"})

\* the callback of the n-th field, an '@' field: the k-th for the k-th '@'
CallbackOf(n) == callargs[Cardinality({j \in 1 .. n : up_format[j].typ = "@"})]

\* the list returned has one value per field that is not 'x', in the order
\* of the fields, each made from the characters in the field's own columns
OneValuePerField ==
    up_ret.kind = "list" =>
        /\ Len(up_ret.values) = PlaceOf(Len(up_format))
        /\ \A n \in 1 .. Len(up_format) :
              up_format[n].typ # "x"
                 => up_ret.values[PlaceOf(n)]
                      = IF up_format[n].optional /\ Blank(OwnColumns(n))
                        THEN NoneValue
                        ELSE Cast(up_format[n].typ,
                                  IF up_format[n].typ = "@" THEN CallbackOf(n)
                                  ELSE "",
                                  OwnColumns(n))

\* where no list is returned, an optional field whose columns are blank is
\* never the reason
BlankOptionalNeverRaises ==
    /\ up_ret.kind = "UnpackError"
           => \E n \in 1 .. Len(up_format) :
                 /\ up_format[n].typ \in {"i", "f"}
                 /\ ~(up_format[n].optional /\ Blank(OwnColumns(n)))
                 /\ Cast(up_format[n].typ, "", OwnColumns(n)) = CastError
    /\ up_ret.kind = "IndexError"
           => Cardinality({j \in 1 .. Len(up_format) : up_format[j].typ = "@"})
                  > Len(callargs)

\* C18: the list unpack_fixed returns has one value per field that is not
\* 'x', in the order of the fields, each made from the characters in the
\* field's own columns: None for an optional field whose columns are blank
\* (which never raises), and for the k-th '@' field what the k-th callback
\* makes of them, also after '@' fields that were optional and blank.
C18_OneValuePerField == OneValuePerField /\ BlankOptionalNeverRaises

\* an '@' field has been converted by the second callback after an optional
\* '@' field whose columns were blank
C18_SecondCallbackAfterBlank ==
    /\ up_ret.kind = "list"
    /\ Len(up_format) = 2
    /\ up_format[1] = FormField("@", 1, TRUE)
    /\ up_format[2].typ = "@"
    /\ up_ret.values[1] = NoneValue
    /\ up_ret.values[2].kind = "second callback"

(***************************************************************************)
(* Claims about the caches of the process                                  *)
(***************************************************************************)

\* every entry of the dictionary before is in the dictionary after, with the
\* same value
Kept(before, after) ==
    \A key \in DOMAIN before : key \in DOMAIN after /\ after[key] = before[key]

\* C21: the caches are purely additive: no call of reuse, decimate_coeffs,
\* decimate, mk_decitab, decitab or match_nslc removes or overwrites an entry
\* of the interning store, of the FIR or IIR coefficient caches, of the
\* decimation table or of the pattern cache.
C21_CachesAdditive ==
    [][/\ Kept(reuse_store, reuse_store')
       /\ Kept(decimate_fir_coeffs, decimate_fir_coeffs')
       /\ Kept(decimate_iir_coeffs, decimate_iir_coeffs')
       /\ Kept(decitab_tab, decitab_tab')
       /\ Kept(pattern_cache, pattern_cache')]_vars

\* C21's case: every cache holds an entry, and reuse has been called with an
\* object equal to the one in the store and has returned the one in the store
C21_EveryCacheFilled ==
    /\ DOMAIN decimate_fir_coeffs # {}
    /\ DOMAIN decimate_iir_coeffs # {}
    /\ DOMAIN decitab_tab # {}
    /\ DOMAIN pattern_cache # {}
    /\ ca_call.kind = "reuse"
    /\ ca_call.val.id = 2
    /\ ca_ret.kind = "object"
    /\ ca_ret.val.id = 1
    /\ reuse_store[ca_call.val.value] = ca_ret.val

(***************************************************************************)
(* Claims about ensuredir                                                  *)
(***************************************************************************)

\* C23: ensuredir tolerates that dst exists already at its last step: when
\* the other caller creates dst between this caller's os.path.exists(dst) and
\* its os.mkdir(dst), this caller's call does not raise.
C23_FinalRaceTolerated ==
    \A c \in Callers :
        ~(/\ ed_pc[c] = "raised"
          /\ ed_exc[c] = [errno |-> "EEXIST", path |-> MaxDepth])

(***************************************************************************)
(* Claims about the carry of time_to_str                                   *)
(***************************************************************************)

\* the format is one with '.xFRAC' after the date and time, and time_to_str
\* has returned
Rendered(x) ==
    /\ rn_str # NoStr
    /\ \E sep \in Seps : rn_format = Base(sep) \o fixed_endings[x + 1]

\* the whole second the string shows, as days and seconds since the epoch
ShownSecond ==
    timegm(strptime(SubSeq(rn_str, 1, 19), SubSeq(rn_format, 1, 17)).tm)

\* the digits the string shows after the dot
ShownDigits == SubSeq(rn_str, 21, Len(rn_str))

\* the seconds from the whole second of t to the whole second shown
SecondsOn ==
    (ShownSecond.days - rn_t.days) * SecondsPerDay + ShownSecond.sod - rn_t.sod

\* the fraction of t, num / 2^dexp, is nearer to one than to the largest
\* fraction of x decimals (no double is half way)
RoundsToOne(x) ==
    2 * Pow(5, x) * (Pow(2, rn_t.dexp) - rn_t.num) < Pow(2, rn_t.dexp - x)

\* twice the distance from t to the time shown, in units of 2^-(dexp-x) of
\* the last digit shown
TwiceOff(x) ==
    LET off == (SecondsOn * Pow(10, x) + NumberOf(ShownDigits))
                   * Pow(2, rn_t.dexp - x)
               - Pow(5, x) * rn_t.num
    IN 2 * (IF off < 0 THEN -off ELSE off)

\* C24: with '.xFRAC' in the format, time_to_str shows a whole second, a dot
\* and x digits; the time shown is at most half a unit of the last digit
\* from t; and where the fraction of t rounds to one, the string shows the
\* following second (of the following minute, hour, day, month or year where
\* it is their first) with x zeros, never a fraction that begins with 1.
C24_Carry ==
    \A x \in 1 .. 3 :
        Rendered(x) =>
            /\ Len(rn_str) = 20 + x
            /\ strptime(SubSeq(rn_str, 1, 19), SubSeq(rn_format, 1, 17)).kind
                   = "struct_time"
            /\ rn_str[20] = "."
            /\ AllDigits(ShownDigits)
            /\ SecondsOn \in {0, 1}
            /\ TwiceOff(x) <= Pow(2, rn_t.dexp - x)
            /\ RoundsToOne(x)
                   => SecondsOn = 1 /\ ShownDigits = [n \in 1 .. x |-> "0"]

\* C24's case: the fraction of t has rounded to one in the last second of a
\* year, and the string shows the first second of the next year
C24_CarriedIntoNextYear ==
    /\ Rendered(2)
    /\ RoundsToOne(2)
    /\ gmtime(rn_t).Y = 2599
    /\ rn_str = Written(<<2600, 1, 1, 0, 0, 0>>, rn_format[9], TRUE)
                    \o <<".", "0", "0">>

====
